---------------------------- MODULE Spec2Model ----------------------------
(***************************************************************************)
(* A model of the airspace viewer's two stateless cores and of the props   *)
(* that feed them:                                                         *)
(*   - the airspace lane layout (AirspacesDetailsPanel.tsx),               *)
(*   - the NOTAM status / D) schedule evaluation (NotamDialog.tsx),        *)
(*   - the NOTAM coordinate extraction (utils/notamCoordinates.ts).        *)
(* Text is modelled as a sequence of one-character strings, so that the    *)
(* regular expressions and the parsers of the source are computed, not     *)
(* assumed.                                                                *)
(***************************************************************************)
EXTENDS Integers, Sequences, FiniteSets, TLC

VARIABLES
    features,           \* the panel's airspaces prop: the features' limits
    airspaces,          \* the ProcessedAirspace list handed to the layout
    laneCall,           \* "none" | "assignLanes" | "panel": what has run
    airspacesWithLanes, \* result of assignLanes: the regions with a lane
    totalLanes,         \* result of assignLanes: lanes.length
    chart,              \* the boxes the panel drew, and the chart's scale
    notam,              \* the NOTAM shown: startDate, endDate, icaoMessage
    now,                \* the UTC clock, in whole minutes since the epoch
    notamStatus,        \* what getNotamStatus returned at the last render
    scheduleCheck,      \* what isWithinSchedule returned at the last call
    icaoText,           \* the ICAO message handed to parseNotamCoordinates
    coords,             \* what parseNotamCoordinates returned for it
    metar,              \* the raw METAR text (rawOb) of the airport
    cloudLayers,        \* what parseCloudLayers returned for it
    windData,           \* what parseWind returned for it
    windCalc,           \* calculateWindComponents: its arguments and result
    decoded,            \* what decodeMetar returned for it
    runwayView,         \* the airport panel's runway row: its inputs and what it shows
    panels,             \* App: weatherData, notamData and the selected features
    notamPanel,         \* NotamPanel: icaoCode, notams, loading, error, fetches in flight
    searchBox,          \* SearchBox: query, results, selectedIndex, searches in flight
    notamDialog,        \* NotamDialog: its NOTAMs, the hidden numbers, the expanded rows
    settings            \* the settings of the settings hook, as stored

laneVars  == <<features, airspaces, laneCall, airspacesWithLanes, totalLanes, chart>>
notamVars == <<notam, now, notamStatus, scheduleCheck>>
coordVars == <<icaoText, coords>>
weatherVars == <<metar, cloudLayers, windData, windCalc, decoded>>
uiVars == <<runwayView, panels, notamPanel, searchBox, notamDialog, settings>>
vars == <<laneVars, notamVars, coordVars, weatherVars, uiVars>>

(***************************************************************************)
(* Generic helpers                                                         *)
(***************************************************************************)
Range(s) == {s[i] : i \in DOMAIN s}

RECURSIVE SeqsUpTo(_, _)
\* All sequences over S of length 0..n.
SeqsUpTo(S, n) ==
    IF n = 0 THEN {<<>>}
    ELSE LET shorter == SeqsUpTo(S, n - 1)
         IN  shorter \cup {Append(s, x) : s \in {t \in shorter : Len(t) = n - 1}, x \in S}

(***************************************************************************)
(* Text: a string is a sequence of one-character strings                   *)
(***************************************************************************)
Digits == <<"0", "1", "2", "3", "4", "5", "6", "7", "8", "9">>

UpperLetters ==
    <<"A", "B", "C", "D", "E", "F", "G", "H", "I", "J", "K", "L", "M",
      "N", "O", "P", "Q", "R", "S", "T", "U", "V", "W", "X", "Y", "Z">>

LowerLetters ==
    <<"a", "b", "c", "d", "e", "f", "g", "h", "i", "j", "k", "l", "m",
      "n", "o", "p", "q", "r", "s", "t", "u", "v", "w", "x", "y", "z">>

\* \d
IsDigit(c) == \E k \in DOMAIN Digits : Digits[k] = c
DigitVal(c) == (CHOOSE k \in DOMAIN Digits : Digits[k] = c) - 1
DigitChar(d) == Digits[d + 1]

\* [A-Z] without and with the i flag
IsUpper(c) == \E k \in DOMAIN UpperLetters : UpperLetters[k] = c
IsLower(c) == \E k \in DOMAIN LowerLetters : LowerLetters[k] = c
IsLetter(c) == IsUpper(c) \/ IsLower(c)

\* \s, for the white space the enumerated texts contain
IsSpace(c) == c \in {" ", "\n", "\t", "\r", "\f"}

\* What . does not match: the line terminators the enumerated texts contain
IsLineTerminator(c) == c \in {"\n", "\r"}

ToUpperChar(c) ==
    IF IsLower(c) THEN UpperLetters[CHOOSE k \in DOMAIN LowerLetters : LowerLetters[k] = c]
    ELSE c

\* String.prototype.toUpperCase
toUpperCase(s) == [i \in DOMAIN s |-> ToUpperChar(s[i])]

\* The characters of a string literal.
Chars(str) == [i \in 1 .. Len(str) |-> SubSeq(str, i, i)]

\* Whether lit occurs in s at position i.
MatchesAt(s, i, lit) ==
    /\ i >= 1
    /\ i + Len(lit) - 1 <= Len(s)
    /\ \A k \in DOMAIN lit : s[i + k - 1] = lit[k]

\* String.prototype.includes
includes(s, lit) == \E i \in 1 .. Len(s) + 1 : MatchesAt(s, i, lit)

\* The least position >= i of s that holds no white space (Len(s) + 1 if none).
SkipSpaces(s, i) ==
    LET stop == {j \in i .. Len(s) : ~IsSpace(s[j])}
    IN  IF stop = {} THEN Len(s) + 1 ELSE CHOOSE j \in stop : \A m \in stop : j <= m

\* The least position >= i of s that holds no digit (Len(s) + 1 if none).
SkipDigits(s, i) ==
    LET stop == {j \in i .. Len(s) : ~IsDigit(s[j])}
    IN  IF stop = {} THEN Len(s) + 1 ELSE CHOOSE j \in stop : \A m \in stop : j <= m

\* String.prototype.trim
trim(s) ==
    LET keep == {j \in DOMAIN s : ~IsSpace(s[j])}
    IN  IF keep = {} THEN <<>>
        ELSE SubSeq(s, CHOOSE j \in keep : \A m \in keep : j <= m,
                       CHOOSE j \in keep : \A m \in keep : j >= m)

\* String.prototype.substring(a, b), 0-based, b exclusive, clipped to the text
substring(s, a, b) ==
    LET lo == IF a > Len(s) THEN Len(s) ELSE a
        hi == IF b > Len(s) THEN Len(s) ELSE b
    IN  SubSeq(s, lo + 1, hi)

\* String.prototype.split(sep) for a one-character separator
RECURSIVE split(_, _)
split(s, sep) ==
    LET at == {j \in DOMAIN s : s[j] = sep}
    IN  IF at = {} THEN <<s>>
        ELSE LET j == CHOOSE j \in at : \A m \in at : j <= m
             IN  <<SubSeq(s, 1, j - 1)>> \o split(SubSeq(s, j + 1, Len(s)), sep)

\* A number or NaN
NaN == [nan |-> TRUE, v |-> 0]
Num(n) == [nan |-> FALSE, v |-> n]

RECURSIVE DigitsValue(_)
DigitsValue(ds) ==
    IF ds = <<>> THEN 0
    ELSE 10 * DigitsValue(SubSeq(ds, 1, Len(ds) - 1)) + DigitVal(ds[Len(ds)])

\* parseInt(s) for decimal text: leading white space, an optional sign, the
\* longest run of digits; NaN when there is no digit.
parseInt(s) ==
    LET p == SkipSpaces(s, 1)
        signed == p <= Len(s) /\ s[p] \in {"+", "-"}
        d == IF signed THEN p + 1 ELSE p
        e == SkipDigits(s, d)
    IN  IF e = d THEN NaN
        ELSE IF signed /\ s[p] = "-" THEN Num(0 - DigitsValue(SubSeq(s, d, e - 1)))
        ELSE Num(DigitsValue(SubSeq(s, d, e - 1)))

\* Fixed-width decimal text of a number
Pad2(n) == <<DigitChar((n \div 10) % 10), DigitChar(n % 10)>>
Pad3(n) == <<DigitChar((n \div 100) % 10), DigitChar((n \div 10) % 10), DigitChar(n % 10)>>
Pad4(n) == Pad2(n \div 100) \o Pad2(n % 100)

(***************************************************************************)
(* NOTAM dates (NotamDialog.tsx, parseNotamDate)                           *)
(***************************************************************************)
\* A Date | null: kind "null", "invalid" (Invalid Date) or "date" with t the
\* time in whole minutes since 1970-01-01T00:00Z.
NullDate == [kind |-> "null", t |-> 0]
InvalidDate == [kind |-> "invalid", t |-> 0]
DateAt(t) == [kind |-> "date", t |-> t]

IsLeapYear(y) == (y % 4 = 0 /\ y % 100 # 0) \/ y % 400 = 0

\* ECMAScript DayFromYear
DayFromYear(y) ==
    365 * (y - 1970) + ((y - 1969) \div 4) - ((y - 1901) \div 100) + ((y - 1601) \div 400)

\* Days before the first of month mn (0-based) in a common year
DaysBeforeMonth == <<0, 31, 59, 90, 120, 151, 181, 212, 243, 273, 304, 334>>

\* ECMAScript MakeDay(year, month, date)
MakeDay(year, month, date) ==
    LET ym == year + (month \div 12)
        mn == month % 12
    IN  DayFromYear(ym) + DaysBeforeMonth[mn + 1]
            + (IF mn >= 2 /\ IsLeapYear(ym) THEN 1 ELSE 0) + date - 1

\* Date.UTC(year, monthIndex, day, hours, minutes) / 60000, for numbers; a
\* year 0..99 means 1900 + year.
DateUTC(year, month, day, hours, minutes) ==
    LET yr == IF year >= 0 /\ year <= 99 THEN 1900 + year ELSE year
    IN  MakeDay(yr, month, day) * 1440 + hours * 60 + minutes

\* Date.prototype.getUTCDay (Sunday = 0), getUTCHours, getUTCMinutes
getUTCDay(t) == ((t \div 1440) + 4) % 7
getUTCHours(t) == (t % 1440) \div 60
getUTCMinutes(t) == t % 60

\* "PERM"
PermText == <<"P", "E", "R", "M">>

\* Element i (1-based) of a split, undefined (parseInt gives NaN) past its end
PartOrUndefined(parts, i) == IF i <= Len(parts) THEN parseInt(parts[i]) ELSE NaN

\* parseNotamDate(dateStr)
parseNotamDate(dateStr) ==
    IF dateStr = PermText THEN NullDate
    ELSE LET parts == split(dateStr, " ")
         IN  IF Len(parts) # 2 THEN NullDate
             ELSE LET dmy     == split(parts[1], "/")
                      month   == PartOrUndefined(dmy, 1)
                      day     == PartOrUndefined(dmy, 2)
                      year    == PartOrUndefined(dmy, 3)
                      hours   == parseInt(substring(parts[2], 0, 2))
                      minutes == parseInt(substring(parts[2], 2, 4))
                  IN  IF month.nan \/ day.nan \/ year.nan \/ hours.nan \/ minutes.nan
                      THEN InvalidDate
                      ELSE DateAt(DateUTC(year.v, month.v - 1, day.v, hours.v, minutes.v))

(***************************************************************************)
(* The D) field and its schedule (NotamDialog.tsx)                         *)
(***************************************************************************)
NoMatch == [found |-> FALSE, text |-> <<>>]
Matched(t) == [found |-> TRUE, text |-> t]

\* Positions where /[\n\s]D\)/i matches
DFieldStarts(msg) ==
    {i \in 1 .. Len(msg) - 2 :
        IsSpace(msg[i]) /\ ToUpperChar(msg[i + 1]) = "D" /\ msg[i + 2] = ")"}

\* The lookahead (?=\s[A-Z]\)|[\n]|$) of the i-flagged pattern, at position q
FieldEndsAt(msg, q) ==
    \/ q = Len(msg) + 1
    \/ msg[q] = "\n"
    \/ /\ q + 2 <= Len(msg)
       /\ IsSpace(msg[q]) /\ IsLetter(msg[q + 1]) /\ msg[q + 2] = ")"

\* icaoMessage.match(/[\n\s]D\)\s*([^\n]*?)(?=\s[A-Z]\)|[\n]|$)/i): group 1
\* of the leftmost match. \s* is greedy and the group lazy, so the group runs
\* from the first non-space after "D)" to the first place the lookahead holds.
dMatch(msg) ==
    LET starts == DFieldStarts(msg)
    IN  IF starts = {} THEN NoMatch
        ELSE LET i == CHOOSE i \in starts : \A m \in starts : i <= m
                 p == SkipSpaces(msg, i + 3)
                 ends == {q \in p .. Len(msg) + 1 : FieldEndsAt(msg, q)}
                 q == CHOOSE q \in ends : \A m \in ends : q <= m
             IN  Matched(SubSeq(msg, p, q - 1))

\* parseSchedule(icaoMessage) !== null
hasSchedule(msg) == dMatch(msg).found

\* schedule.match(/(\d{4})-(\d{4})/): the leftmost match
timeMatch(schedule) ==
    LET at == {i \in 1 .. Len(schedule) - 8 :
                  /\ \A k \in 0 .. 3 : IsDigit(schedule[i + k]) /\ IsDigit(schedule[i + 5 + k])
                  /\ schedule[i + 4] = "-"}
    IN  IF at = {} THEN [found |-> FALSE, startTime |-> 0, endTime |-> 0]
        ELSE LET i == CHOOSE i \in at : \A m \in at : i <= m
             IN  [found |-> TRUE,
                  startTime |-> parseInt(SubSeq(schedule, i, i + 3)).v,
                  endTime |-> parseInt(SubSeq(schedule, i + 5, i + 8)).v]

\* schedule.match(/([A-Z]{3})-([A-Z]{3})/): the leftmost match (no i flag)
dayRangeMatch(schedule) ==
    LET at == {i \in 1 .. Len(schedule) - 6 :
                  /\ \A k \in 0 .. 2 : IsUpper(schedule[i + k]) /\ IsUpper(schedule[i + 4 + k])
                  /\ schedule[i + 3] = "-"}
    IN  IF at = {} THEN [found |-> FALSE, first |-> <<>>, second |-> <<>>]
        ELSE LET i == CHOOSE i \in at : \A m \in at : i <= m
             IN  [found |-> TRUE,
                  first |-> SubSeq(schedule, i, i + 2),
                  second |-> SubSeq(schedule, i + 4, i + 6)]

\* dayMap, in insertion order: SUN = 0 .. SAT = 6
DayNames ==
    << <<"S", "U", "N">>, <<"M", "O", "N">>, <<"T", "U", "E">>, <<"W", "E", "D">>,
       <<"T", "H", "U">>, <<"F", "R", "I">>, <<"S", "A", "T">> >>

\* dayMap[name]: a number, or undefined (given as NaN: every comparison with
\* undefined is false, as with NaN)
dayMap(name) ==
    IF \E k \in DOMAIN DayNames : DayNames[k] = name
    THEN Num((CHOOSE k \in DOMAIN DayNames : DayNames[k] = name) - 1)
    ELSE NaN

\* a <= b and a >= b in JavaScript, false when either side is undefined
JsLeq(a, b) == ~a.nan /\ ~b.nan /\ a.v <= b.v
JsGeq(a, b) == ~a.nan /\ ~b.nan /\ a.v >= b.v

\* The time test of the DAILY branch: no wrap over midnight
timeInRangeDaily(currentTime, tm) ==
    currentTime >= tm.startTime /\ currentTime <= tm.endTime

\* The time test of the day-range and single-day branches
timeInRangeWrapping(currentTime, tm) ==
    IF tm.startTime <= tm.endTime
    THEN currentTime >= tm.startTime /\ currentTime <= tm.endTime
    ELSE currentTime >= tm.startTime \/ currentTime <= tm.endTime

\* A mutant of the day-range test: no wrap over the week boundary.
dayInRangeNoWrap(currentDay, startDay, endDay) ==
    JsGeq(Num(currentDay), startDay) /\ JsLeq(Num(currentDay), endDay)

\* The day test of the day-range branch
dayInRange(currentDay, startDay, endDay) ==
    IF JsLeq(startDay, endDay)
    THEN JsGeq(Num(currentDay), startDay) /\ JsLeq(Num(currentDay), endDay)
    ELSE JsGeq(Num(currentDay), startDay) \/ JsLeq(Num(currentDay), endDay)

\* The for loop over Object.entries(dayMap): the first day, in dayMap order,
\* whose name the upper-cased schedule includes; 0 when there is none.
FirstDayIncluded(schedule) ==
    LET named == {k \in DOMAIN DayNames : includes(toUpperCase(schedule), DayNames[k])}
    IN  IF named = {} THEN 0 ELSE CHOOSE k \in named : \A m \in named : k <= m

\* isWithinSchedule(icaoMessage), with now = new Date() given as t
isWithinSchedule(msg, t) ==
    LET m == dMatch(msg)
    IN  IF ~m.found THEN TRUE
        ELSE
        LET schedule    == trim(m.text)
            currentDay  == getUTCDay(t)
            currentTime == getUTCHours(t) * 100 + getUTCMinutes(t)
            tm          == timeMatch(schedule)
            dr          == dayRangeMatch(schedule)
            single      == FirstDayIncluded(schedule)
        IN  IF includes(toUpperCase(schedule), <<"D", "A", "I", "L", "Y">>)
            THEN IF tm.found THEN timeInRangeDaily(currentTime, tm) ELSE TRUE
            ELSE IF dr.found
            THEN IF ~dayInRange(currentDay, dayMap(dr.first), dayMap(dr.second)) THEN FALSE
                 ELSE IF tm.found THEN timeInRangeWrapping(currentTime, tm)
                 ELSE TRUE
            ELSE IF single # 0
            THEN IF currentDay # single - 1 THEN FALSE
                 ELSE IF tm.found THEN timeInRangeWrapping(currentTime, tm)
                 ELSE TRUE
            ELSE TRUE

(***************************************************************************)
(* getNotamStatus (NotamDialog.tsx)                                        *)
(***************************************************************************)
\* start && start > now
startInFuture(start, t) == start.kind = "date" /\ start.t > t

\* A mutant of the end test: a NOTAM ending this very minute is still active.
endUnsetOrNotPast(end, t) == end.kind = "null" \/ (end.kind = "date" /\ end.t >= t)

\* !end || end > now
endUnsetOrFuture(end, t) == end.kind = "null" \/ (end.kind = "date" /\ end.t > t)

\* A mutant of getNotamStatus: the end date is tested before the start date.
getNotamStatusEndFirst(startDate, endDate, icaoMessage, t) ==
    LET start == parseNotamDate(startDate)
        end   == parseNotamDate(endDate)
    IN  IF ~endUnsetOrFuture(end, t)
        THEN [status |-> "expired", label |-> "Expired"]
        ELSE IF startInFuture(start, t)
        THEN [status |-> "upcoming", label |-> "Upcoming"]
        ELSE IF hasSchedule(icaoMessage) /\ ~isWithinSchedule(icaoMessage, t)
        THEN [status |-> "active", label |-> "Active (Outside Schedule)"]
        ELSE [status |-> "active", label |-> "Active"]

\* A mutant of getNotamStatus: a NOTAM outside its schedule is upcoming.
getNotamStatusOutsideUpcoming(startDate, endDate, icaoMessage, t) ==
    LET start == parseNotamDate(startDate)
        end   == parseNotamDate(endDate)
    IN  IF startInFuture(start, t)
        THEN [status |-> "upcoming", label |-> "Upcoming"]
        ELSE IF endUnsetOrFuture(end, t)
        THEN IF hasSchedule(icaoMessage) /\ ~isWithinSchedule(icaoMessage, t)
             THEN [status |-> "upcoming", label |-> "Upcoming"]
             ELSE [status |-> "active", label |-> "Active"]
        ELSE [status |-> "expired", label |-> "Expired"]

\* getNotamStatus(startDate, endDate, icaoMessage), with now given as t
getNotamStatus(startDate, endDate, icaoMessage, t) ==
    LET start == parseNotamDate(startDate)
        end   == parseNotamDate(endDate)
    IN  IF startInFuture(start, t)
        THEN [status |-> "upcoming", label |-> "Upcoming"]
        ELSE IF endUnsetOrFuture(end, t)
        THEN IF hasSchedule(icaoMessage) /\ ~isWithinSchedule(icaoMessage, t)
             THEN [status |-> "active", label |-> "Active (Outside Schedule)"]
             ELSE [status |-> "active", label |-> "Active"]
        ELSE [status |-> "expired", label |-> "Expired"]

(***************************************************************************)
(* NOTAM coordinates (utils/notamCoordinates.ts)                           *)
(***************************************************************************)
\* A parsed angle: null, or a number of degrees given in arc seconds
\* (degrees * 3600), which is exact where the source holds a float.
NullAngle == [isNull |-> TRUE, arcsec |-> 0]
Angle(a) == [isNull |-> FALSE, arcsec |-> a]

\* parseDMSToDecimal(dms)
parseDMSToDecimal(dms) ==
    LET hemisphere  == IF dms = <<>> THEN "" ELSE ToUpperChar(dms[Len(dms)])
        numbers     == SubSeq(dms, 1, Len(dms) - 1)
        isLatitude  == hemisphere \in {"N", "S"}
        isLongitude == hemisphere \in {"E", "W"}
        expectedLength == IF isLatitude THEN 6 ELSE 7
        dl      == IF isLatitude THEN 2 ELSE 3
        degrees == parseInt(substring(numbers, 0, dl))
        minutes == parseInt(substring(numbers, dl, dl + 2))
        seconds == parseInt(substring(numbers, dl + 2, Len(numbers)))
    IN  IF ~isLatitude /\ ~isLongitude THEN NullAngle
        ELSE IF Len(numbers) # expectedLength THEN NullAngle
        ELSE IF degrees.nan \/ minutes.nan \/ seconds.nan THEN NullAngle
        ELSE IF minutes.v >= 60 \/ seconds.v >= 60 THEN NullAngle
        ELSE IF isLatitude /\ degrees.v > 90 THEN NullAngle
        ELSE IF isLongitude /\ degrees.v > 180 THEN NullAngle
        ELSE LET decimal == degrees.v * 3600 + minutes.v * 60 + seconds.v
             IN  IF hemisphere \in {"S", "W"} THEN Angle(0 - decimal) ELSE Angle(decimal)

NoPair == [found |-> FALSE, lat |-> <<>>, lon |-> <<>>]

\* (\d{6}[NS])\s+(\d{7}[EW]) matched at position i of s
pairAt(s, i) ==
    LET j == SkipSpaces(s, i + 7)
    IN  IF /\ i >= 1 /\ i + 6 <= Len(s)
           /\ \A k \in 0 .. 5 : IsDigit(s[i + k])
           /\ s[i + 6] \in {"N", "S"}
           /\ j > i + 7 /\ j + 7 <= Len(s)
           /\ \A k \in 0 .. 6 : IsDigit(s[j + k])
           /\ s[j + 7] \in {"E", "W"}
        THEN [found |-> TRUE, lat |-> SubSeq(s, i, i + 6), lon |-> SubSeq(s, j, j + 7)]
        ELSE NoPair

\* \s+ lit at position i: the position after lit, or 0
AfterSpacesAndWord(s, i, lit) ==
    LET j == SkipSpaces(s, i)
    IN  IF i >= 1 /\ j > i /\ MatchesAt(s, j, lit) THEN j + Len(lit) ELSE 0

\* \s+ then the pair
pairAfterSpaces(s, i) ==
    LET j == SkipSpaces(s, i)
    IN  IF i >= 1 /\ j > i THEN pairAt(s, j) ELSE NoPair

NoRadiusMatch == [found |-> FALSE, radius |-> <<>>, lat |-> <<>>, lon |-> <<>>]

\* /WI\s+(\d+(?:\.\d+)?)\s*NM\s+RADIUS\s+OF\s+(\d{6}[NS])\s+(\d{7}[EW])/
\* matched at position i
radiusPatternAt(s, i) ==
    LET b == SkipSpaces(s, i + 2)
        c == SkipDigits(s, b)
        d == IF c <= Len(s) /\ s[c] = "." /\ SkipDigits(s, c + 1) > c + 1
             THEN SkipDigits(s, c + 1) ELSE c
        e == SkipSpaces(s, d)
        f == AfterSpacesAndWord(s, e + 2, <<"R", "A", "D", "I", "U", "S">>)
        g == AfterSpacesAndWord(s, f, <<"O", "F">>)
        pr == pairAfterSpaces(s, g)
    IN  IF /\ MatchesAt(s, i, <<"W", "I">>)
           /\ b > i + 2 /\ c > b
           /\ MatchesAt(s, e, <<"N", "M">>)
           /\ f # 0 /\ g # 0 /\ pr.found
        THEN [found |-> TRUE, radius |-> SubSeq(s, b, d - 1), lat |-> pr.lat, lon |-> pr.lon]
        ELSE NoRadiusMatch

\* (?:\s+SITE\s+CENTRE\s+)? taken, then the pair
siteCentrePairAt(s, i) ==
    LET a == AfterSpacesAndWord(s, i, <<"S", "I", "T", "E">>)
        b == AfterSpacesAndWord(s, a, <<"C", "E", "N", "T", "R", "E">>)
    IN  IF a # 0 /\ b # 0 THEN pairAfterSpaces(s, b) ELSE NoPair

\* \s*:\s* at position i: the position after the colon, or 0
AfterColon(s, i) ==
    LET c == SkipSpaces(s, i)
    IN  IF c <= Len(s) /\ s[c] = ":" THEN c + 1 ELSE 0

\* (?:\s*:\s*)?(?:\s+SITE\s+CENTRE\s+)?(\d{6}[NS])\s+(\d{7}[EW]) from
\* position k, right after the keyword. Each optional group is taken or
\* skipped; the four ways exclude each other on any one text.
afterPsnKeyword(s, k) ==
    LET colon == AfterColon(s, k)
    IN  IF pairAt(s, k).found THEN pairAt(s, k)
        ELSE IF siteCentrePairAt(s, k).found THEN siteCentrePairAt(s, k)
        ELSE IF colon # 0 /\ pairAt(s, SkipSpaces(s, colon)).found
             THEN pairAt(s, SkipSpaces(s, colon))
        ELSE IF colon # 0 THEN siteCentrePairAt(s, colon)
        ELSE NoPair

\* /(?:PSN|POSITION)(?:\s*:\s*)?(?:\s+SITE\s+CENTRE\s+)?(\d{6}[NS])\s+(\d{7}[EW])/
\* matched at position i
psnPatternAt(s, i) ==
    IF MatchesAt(s, i, <<"P", "S", "N">>) THEN afterPsnKeyword(s, i + 3)
    ELSE IF MatchesAt(s, i, <<"P", "O", "S", "I", "T", "I", "O", "N">>)
    THEN afterPsnKeyword(s, i + 8)
    ELSE NoPair

\* /BY\s*:\s*(\d{6}[NS])\s+(\d{7}[EW])/ matched at position i
byPatternAt(s, i) ==
    LET colon == AfterColon(s, i + 2)
    IN  IF MatchesAt(s, i, <<"B", "Y">>) /\ colon # 0
        THEN pairAt(s, SkipSpaces(s, colon))
        ELSE NoPair

\* String.prototype.match without the g flag: the leftmost position at
\* which the pattern matches
radiusMatch(s) ==
    LET at == {i \in DOMAIN s : radiusPatternAt(s, i).found}
    IN  IF at = {} THEN NoRadiusMatch
        ELSE radiusPatternAt(s, CHOOSE i \in at : \A m \in at : i <= m)

psnMatch(s) ==
    LET at == {i \in DOMAIN s : psnPatternAt(s, i).found}
    IN  IF at = {} THEN NoPair ELSE psnPatternAt(s, CHOOSE i \in at : \A m \in at : i <= m)

byMatch(s) ==
    LET at == {i \in DOMAIN s : byPatternAt(s, i).found}
    IN  IF at = {} THEN NoPair ELSE byPatternAt(s, CHOOSE i \in at : \A m \in at : i <= m)

generalMatch(s) ==
    LET at == {i \in DOMAIN s : pairAt(s, i).found}
    IN  IF at = {} THEN NoPair ELSE pairAt(s, CHOOSE i \in at : \A m \in at : i <= m)

\* parseFloat of the radius group \d+(?:\.\d+)?, in thousandths of a
\* nautical mile (the enumerated radii have at most three decimals)
parseFloatMilli(txt) ==
    LET whole == SkipDigits(txt, 1)
        rest  == SubSeq(txt, whole + 1, Len(txt))
        frac  == IF Len(rest) > 3 THEN SubSeq(rest, 1, 3) ELSE rest
        scale == CASE Len(frac) = 0 -> 0 [] Len(frac) = 1 -> 100
                   [] Len(frac) = 2 -> 10 [] OTHER -> 1
    IN  DigitsValue(SubSeq(txt, 1, whole - 1)) * 1000 + DigitsValue(frac) * scale

NoCoordinates ==
    [found |-> FALSE, latitude |-> 0, longitude |-> 0, hasRadius |-> FALSE, radius |-> 0]

\* lat !== null && lon !== null, and the object returned then
validPair(m) ==
    ~parseDMSToDecimal(m.lat).isNull /\ ~parseDMSToDecimal(m.lon).isNull

coordinatesOf(m, hasRadius, radius) ==
    [found |-> TRUE,
     latitude |-> parseDMSToDecimal(m.lat).arcsec,
     longitude |-> parseDMSToDecimal(m.lon).arcsec,
     hasRadius |-> hasRadius, radius |-> radius]

\* parseNotamCoordinates(icaoMessage)
parseNotamCoordinates(icaoMessage) ==
    LET normalized == toUpperCase(icaoMessage)
        m1 == radiusMatch(normalized)
        m2 == psnMatch(normalized)
        m3 == byMatch(normalized)
        m4 == generalMatch(normalized)
    IN  IF m1.found /\ validPair(m1) THEN coordinatesOf(m1, TRUE, parseFloatMilli(m1.radius))
        ELSE IF m2.found /\ validPair(m2) THEN coordinatesOf(m2, FALSE, 0)
        ELSE IF m3.found /\ validPair(m3) THEN coordinatesOf(m3, FALSE, 0)
        ELSE IF m4.found /\ validPair(m4) THEN coordinatesOf(m4, FALSE, 0)
        ELSE NoCoordinates

NotParsed == [done |-> FALSE, result |-> NoCoordinates]

CoordsIdle ==
    /\ icaoText = <<>>
    /\ coords = NotParsed

(***************************************************************************)
(* NOTAM inputs, the clock, and the renders of the dialog                  *)
(***************************************************************************)
\* "MM/DD/YYYY HHMM"
DateText(mm, dd, yyyy, hhmm) ==
    Pad2(mm) \o <<"/">> \o Pad2(dd) \o <<"/">> \o Pad4(yyyy) \o <<" ">> \o Pad4(hhmm)

\* The clock is sampled over the week from Sunday 2025-01-05, at these
\* times of day <<hours, minutes>>.
WeekStart == DateUTC(2025, 0, 5, 0, 0)

TimesOfDay ==
    {<<0, 0>>, <<2, 0>>, <<2, 1>>, <<8, 0>>, <<12, 0>>, <<17, 0>>, <<17, 1>>,
     <<22, 59>>, <<23, 0>>, <<23, 59>>}

NowSamples == {WeekStart + d * 1440 + hm[1] * 60 + hm[2] : d \in 0 .. 6, hm \in TimesOfDay}

\* The sample after t, or t when it is the last one.
NextSample(t) ==
    LET later == {u \in NowSamples : u > t}
    IN  IF later = {} THEN t ELSE CHOOSE u \in later : \A m \in later : u <= m

\* Start and end dates: before the week, Wednesday noon of the week, after
\* the week; and what the API or the dialog's String(x || '') can hand over
\* instead: PERM, the empty string, a date without a time, a non-date.
EmptyText == <<>>
DateOnlyText == <<"0", "1", "/", "0", "8", "/", "2", "0", "2", "5">>
NonDateText == <<"T", "B", "D", " ", "0", "0", "0", "0">>
DateBefore == DateText(1, 1, 2025, 0)
DateMidWeek == DateText(1, 8, 2025, 1200)
DateAfter == DateText(1, 20, 2025, 0)

StartDates == {DateBefore, DateMidWeek, DateAfter, EmptyText, NonDateText}
EndDates == {PermText, EmptyText, DateOnlyText, NonDateText, DateBefore, DateMidWeek, DateAfter}

\* An ICAO message around a D) field: "A) EGLL D) <schedule> E) CLSD", the
\* fields separated by spaces or by line breaks.
MessageWith(schedule, sep) ==
    <<"A", ")", " ", "E", "G", "L", "L">> \o <<sep, "D", ")", " ">> \o schedule \o <<sep>> \o <<"E", ")", " ", "C", "L", "S", "D">>

\* The same message with the fields on lines that end in CR LF
MessageOnLines(schedule) ==
    Chars("A) EGLL") \o <<"\r", "\n">> \o Chars("D) ") \o schedule
        \o <<"\r", "\n">> \o Chars("E) CLSD")

\* An ICAO message with no D) field
MessageNoD == <<"A", ")", " ", "E", "G", "L", "L">> \o <<" ">> \o <<"E", ")", " ", "C", "L", "S", "D">>

\* A schedule, as the sender means it: kind "daily", "range" (days a..b),
\* "single" (day a) or "other" (text number a of OtherSchedules), with an
\* optional time range s-e in HHMM.
OtherSchedules == << <<"X", "X", "X", "-", "Y", "Y", "Y">>, <<"H", "2", "4">>, <<"S", "R", "-", "S", "S">> >>

TimeRanges == {<<800, 1700>>, <<2300, 200>>}

ScheduleDescs ==
    LET withTimes(kind, a, b) ==
            {[kind |-> kind, a |-> a, b |-> b, hasTime |-> FALSE, s |-> 0, e |-> 0]}
            \cup {[kind |-> kind, a |-> a, b |-> b, hasTime |-> TRUE, s |-> r[1], e |-> r[2]] :
                     r \in TimeRanges}
    IN  UNION ( {withTimes("daily", 0, 0)}
                \cup {withTimes("range", a, b) : a \in 0 .. 6, b \in 0 .. 6}
                \cup {withTimes("single", a, a) : a \in 0 .. 6}
                \cup {withTimes("other", a, a) : a \in DOMAIN OtherSchedules} )

\* The D) text of a schedule, e.g. "SAT-MON 2300-0200"
ScheduleText(d) ==
    LET head == CASE d.kind = "daily"  -> <<"D", "A", "I", "L", "Y">>
                  [] d.kind = "range"  -> DayNames[d.a + 1] \o <<"-">> \o DayNames[d.b + 1]
                  [] d.kind = "single" -> DayNames[d.a + 1]
                  [] d.kind = "other"  -> OtherSchedules[d.a]
    IN  IF d.hasTime THEN head \o <<" ">> \o Pad4(d.s) \o <<"-">> \o Pad4(d.e) ELSE head

\* Every schedule with its message, the fields separated by spaces; the
\* weekday-range and DAILY schedules with line breaks (LF, CR LF) as well.
ScheduleInputs ==
    {[desc |-> d, text |-> MessageWith(ScheduleText(d), " ")] : d \in ScheduleDescs}
    \cup {[desc |-> d, text |-> MessageWith(ScheduleText(d), "\n")] :
             d \in {x \in ScheduleDescs : x.kind = "daily" \/ (x.kind = "range" /\ x.a = 6)}}
    \cup {[desc |-> d, text |-> MessageOnLines(ScheduleText(d))] :
             d \in {x \in ScheduleDescs : x.kind = "daily" \/ (x.kind = "range" /\ x.a = 6)}}

ScheduleMessages == {p.text : p \in ScheduleInputs} \cup {MessageNoD}

\* The messages of the status renders: no D) field, DAILY 0800-1700,
\* DAILY 2300-0200, MON-FRI 0800-1700, SAT-MON 2300-0200.
StatusSchedules ==
    {[kind |-> "daily", a |-> 0, b |-> 0, hasTime |-> TRUE, s |-> 800, e |-> 1700],
     [kind |-> "daily", a |-> 0, b |-> 0, hasTime |-> TRUE, s |-> 2300, e |-> 200],
     [kind |-> "range", a |-> 1, b |-> 5, hasTime |-> TRUE, s |-> 800, e |-> 1700],
     [kind |-> "range", a |-> 6, b |-> 1, hasTime |-> TRUE, s |-> 2300, e |-> 200]}

StatusMessages == {MessageWith(ScheduleText(d), " ") : d \in StatusSchedules} \cup {MessageNoD}

NotRendered == [status |-> "none", label |-> ""]
NotChecked == [done |-> FALSE, value |-> FALSE]

NotamIdle ==
    /\ notam = [startDate |-> EmptyText, endDate |-> EmptyText, icaoMessage |-> EmptyText]
    /\ now = WeekStart
    /\ notamStatus = NotRendered
    /\ scheduleCheck = NotChecked

\* Nothing of the weather has been computed.
NoLayers == [done |-> FALSE, layers |-> <<>>]
NoWindData == [done |-> FALSE, found |-> FALSE, variable |-> FALSE, direction |-> 0,
               speed |-> 0, hasGust |-> FALSE, gust |-> 0]
NoWindCalc == [done |-> FALSE, windDir |-> 0, windSpeed |-> 0, runwayHeading |-> 0,
               headwind |-> 0, crosswind |-> 0]
NotDecoded == [done |-> FALSE, fallback |-> FALSE, parts |-> <<>>, text |-> <<>>]

\* The idle values of the user interface's state.
NoRunwayView ==
    [done |-> FALSE, hasMetar |-> FALSE, rawOb |-> <<>>, le_ident |-> <<>>, he_ident |-> <<>>,
     le |-> [nan |-> FALSE, headwind |-> 0, crosswind |-> 0],
     he |-> [nan |-> FALSE, headwind |-> 0, crosswind |-> 0],
     favoredEnd |-> "null", shown |-> FALSE,
     windComponents |-> [nan |-> FALSE, headwind |-> 0, crosswind |-> 0],
     hasGust |-> FALSE, gust |-> [nan |-> FALSE, headwind |-> 0, crosswind |-> 0]]
NoPanels ==
    [weatherData |-> "null", weatherDataRef |-> "null",
     notamData |-> "null", notamDataRef |-> "null", flushSync |-> FALSE,
     airspaces |-> <<>>, airports |-> <<>>, navaids |-> <<>>,
     obstacles |-> <<>>, reportingPoints |-> <<>>,
     isAirspacesOpen |-> FALSE, isAirportsOpen |-> FALSE, isNavaidsOpen |-> FALSE,
     isObstaclesOpen |-> FALSE, isReportingPointsOpen |-> FALSE]
\* notams when no list is held (null).
NoList == [code |-> "null", entries |-> "null"]

NoNotamPanel ==
    [icaoCode |-> "null", deps |-> "null", notams |-> NoList, loading |-> FALSE,
     error |-> "null", inFlight |-> {}, issued |-> 0]
NoSearchBox ==
    [map |-> FALSE, query |-> <<>>, results |-> <<>>, isOpen |-> FALSE,
     selectedIndex |-> -1, timer |-> [armed |-> FALSE, query |-> <<>>, map |-> FALSE],
     selected |-> <<>>, threw |-> FALSE]
NoNotamDialog == [notams |-> <<>>, expandedNotams |-> {}, t |-> WeekStart]
\* The settings before any change.
DEFAULT_SETTINGS ==
    [runwayLengthUnit |-> "meters", favourites |-> <<>>, showObstacles |-> TRUE,
     showReportingPoints |-> TRUE, hiddenNotams |-> <<>>]

NoSettings == DEFAULT_SETTINGS

UiIdle ==
    /\ runwayView = NoRunwayView
    /\ panels = NoPanels
    /\ notamPanel = NoNotamPanel
    /\ searchBox = NoSearchBox
    /\ notamDialog = NoNotamDialog
    /\ settings = NoSettings

WeatherIdle ==
    /\ metar = <<>>
    /\ cloudLayers = NoLayers
    /\ windData = NoWindData
    /\ windCalc = NoWindCalc
    /\ decoded = NotDecoded

NoChart == [maxAltitude |-> 0, boxes |-> <<>>]

LanesIdle ==
    /\ features = <<>>
    /\ airspaces = <<>>
    /\ laneCall = "none"
    /\ airspacesWithLanes = <<>>
    /\ totalLanes = 0
    /\ chart = NoChart

\* The dialog is handed a NOTAM at some time of the week.
InitStatus ==
    /\ UiIdle
    /\ notam \in [startDate : StartDates, endDate : EndDates, icaoMessage : StatusMessages]
    /\ now \in NowSamples
    /\ notamStatus = NotRendered
    /\ scheduleCheck = NotChecked
    /\ LanesIdle
    /\ CoordsIdle
    /\ WeatherIdle

\* The first render of the NOTAM's status badge.
RenderStatus ==
    /\ notamStatus = NotRendered
    /\ notamStatus' = getNotamStatus(notam.startDate, notam.endDate, notam.icaoMessage, now)
    /\ UNCHANGED <<notam, now, scheduleCheck, laneVars, coordVars, weatherVars, uiVars>>

\* The interval callback: time has passed, setCurrentTime re-renders.
TickStatus ==
    /\ notamStatus # NotRendered
    /\ NextSample(now) # now
    /\ now' = NextSample(now)
    /\ notamStatus' = getNotamStatus(notam.startDate, notam.endDate, notam.icaoMessage, now')
    /\ UNCHANGED <<notam, scheduleCheck, laneVars, coordVars, weatherVars, uiVars>>

NextStatus == RenderStatus \/ TickStatus

SpecStatus == InitStatus /\ [][NextStatus]_vars

\* isWithinSchedule on a message of a NOTAM that has started and never ends.
InitSchedule ==
    /\ UiIdle
    /\ notam \in [startDate : {DateBefore}, endDate : {PermText}, icaoMessage : ScheduleMessages]
    /\ now \in NowSamples
    /\ notamStatus = NotRendered
    /\ scheduleCheck = NotChecked
    /\ LanesIdle
    /\ CoordsIdle
    /\ WeatherIdle

CheckSchedule ==
    /\ ~scheduleCheck.done
    /\ scheduleCheck' = [done |-> TRUE, value |-> isWithinSchedule(notam.icaoMessage, now)]
    /\ UNCHANGED <<notam, now, notamStatus, laneVars, coordVars, weatherVars, uiVars>>

\* The check is made again at the next render, a sample of the clock later.
TickSchedule ==
    /\ scheduleCheck.done
    /\ NextSample(now) # now
    /\ now' = NextSample(now)
    /\ scheduleCheck' = [done |-> TRUE, value |-> isWithinSchedule(notam.icaoMessage, now')]
    /\ UNCHANGED <<notam, notamStatus, laneVars, coordVars, weatherVars, uiVars>>

NextSchedule == CheckSchedule \/ TickSchedule

SpecSchedule == InitSchedule /\ [][NextSchedule]_vars

\* Schedules that mention weekdays one by one: the days in the order of
\* the text, with an optional time range s-e in HHMM.
DayLists ==
    {<<d>> : d \in 0 .. 6} \cup {<<1, 3>>, <<3, 1>>, <<6, 0>>, <<0, 6>>, <<1, 3, 5>>}

DaySchedules ==
    {[days |-> l, hasTime |-> FALSE, s |-> 0, e |-> 0] : l \in DayLists}
        \cup {[days |-> l, hasTime |-> TRUE, s |-> r[1], e |-> r[2]] :
                 l \in DayLists, r \in TimeRanges}

RECURSIVE DayListText(_)
\* The names of the days, separated by spaces, e.g. "MON WED FRI"
DayListText(l) ==
    IF Len(l) = 1 THEN DayNames[l[1] + 1]
    ELSE DayNames[l[1] + 1] \o <<" ">> \o DayListText(Tail(l))

DayScheduleText(d) ==
    IF d.hasTime THEN DayListText(d.days) \o <<" ">> \o Pad4(d.s) \o <<"-">> \o Pad4(d.e)
    ELSE DayListText(d.days)

DayInputs == {[desc |-> d, text |-> MessageWith(DayScheduleText(d), " ")] : d \in DaySchedules}

\* isWithinSchedule on a message whose D) field names weekdays, of a NOTAM
\* that has started and never ends.
InitDays ==
    /\ UiIdle
    /\ notam \in [startDate : {DateBefore}, endDate : {PermText},
                  icaoMessage : {x.text : x \in DayInputs}]
    /\ now \in NowSamples
    /\ notamStatus = NotRendered
    /\ scheduleCheck = NotChecked
    /\ LanesIdle
    /\ CoordsIdle
    /\ WeatherIdle

SpecDays == InitDays /\ [][NextSchedule]_vars

\* Dates within the sampled week: Monday 08:00, Tuesday 17:00, Wednesday
\* 12:00 and Thursday 23:00.
DateMonday == DateText(1, 6, 2025, 800)
DateTuesday == DateText(1, 7, 2025, 1700)
DateThursday == DateText(1, 9, 2025, 2300)

\* The dialog is handed, at the start of the week, a NOTAM that starts and
\* ends within the week; the end may come before the start.
InitProgress ==
    /\ UiIdle
    /\ notam \in [startDate : {DateMonday, DateMidWeek},
                  endDate : {DateTuesday, DateMidWeek, DateThursday},
                  icaoMessage : StatusMessages]
    /\ now = WeekStart
    /\ notamStatus = NotRendered
    /\ scheduleCheck = NotChecked
    /\ LanesIdle
    /\ CoordsIdle
    /\ WeatherIdle

SpecProgress == InitProgress /\ [][NextStatus]_vars

(***************************************************************************)
(* Airspace lane layout (AirspacesDetailsPanel.tsx)                        *)
(***************************************************************************)
\* Longest list of regions the model enumerates.
MaxRegions == 3

\* Altitudes (feet) the enumerated regions take their bounds from.
Altitudes == {0, 3000, 5000, 8000}

\* A region before indexing: any pair of bounds, inverted ones included
\* (the panel does not validate lower <= upper).
Bounds == [lowerFt : Altitudes, upperFt : Altitudes]

\* The regions of section 8 of the specification: A, B, C.
ExampleABC ==
    << [lowerFt |-> 0,    upperFt |-> 5000],
       [lowerFt |-> 3000, upperFt |-> 8000],
       [lowerFt |-> 9000, upperFt |-> 12000] >>

\* ProcessedAirspace: the map() callback gives each feature its input index.
WithIndex(bs) ==
    [i \in DOMAIN bs |-> [index |-> i - 1, lowerFt |-> bs[i].lowerFt, upperFt |-> bs[i].upperFt]]

\* Two regions whose bounds touch: [0,5000] and [5000,10000].
ExampleTouching ==
    << [lowerFt |-> 0,    upperFt |-> 5000],
       [lowerFt |-> 5000, upperFt |-> 10000] >>

AirspaceInputs ==
    {WithIndex(bs) : bs \in SeqsUpTo(Bounds, MaxRegions) \cup {ExampleABC, ExampleTouching}}

\* A mutant of doAirspacesOverlap: only one of the two orders is tested.
doAirspacesOverlapOneSided(a, b) ==
    ~(a.upperFt <= b.lowerFt)

\* A mutant of doAirspacesOverlap: touching bounds count as an overlap.
doAirspacesOverlapStrict(a, b) ==
    ~(a.upperFt < b.lowerFt \/ b.upperFt < a.lowerFt)

\* doAirspacesOverlap: !(a.upperFt <= b.lowerFt || b.upperFt <= a.lowerFt)
doAirspacesOverlap(a, b) ==
    ~(a.upperFt <= b.lowerFt \/ b.upperFt <= a.lowerFt)

\* A mutant of the lane scan: only the region last pushed to a lane is tested.
hasOverlapLastOnly(lane, airspace) ==
    Len(lane) > 0 /\ doAirspacesOverlap(airspace, lane[Len(lane)])

\* lane.some(other => doAirspacesOverlap(airspace, other))
hasOverlap(lane, airspace) ==
    \E k \in DOMAIN lane : doAirspacesOverlap(airspace, lane[k])

\* A mutant of the lane scan: the last lane without an overlap is taken.
LastFreeLane(lanes, airspace) ==
    LET free == {k \in 0 .. Len(lanes) - 1 : ~hasOverlap(lanes[k + 1], airspace)}
    IN  IF free = {} THEN -1
        ELSE CHOOSE k \in free : \A m \in free : k >= m

\* The inner for loop: the first laneIndex (0-based) whose lane has no
\* overlap with the airspace, or -1.
FirstFreeLane(lanes, airspace) ==
    LET free == {k \in 0 .. Len(lanes) - 1 : ~hasOverlap(lanes[k + 1], airspace)}
    IN  IF free = {} THEN -1
        ELSE CHOOSE k \in free : \A m \in free : k <= m

\* One iteration of the outer for loop over [lanes, airspacesWithLanes].
AssignOne(acc, airspace) ==
    LET found       == FirstFreeLane(acc.lanes, airspace)
        assignedLane == IF found = -1 THEN Len(acc.lanes) ELSE found
        lanes1      == IF found = -1 THEN Append(acc.lanes, <<>>) ELSE acc.lanes
    IN  [lanes |-> [lanes1 EXCEPT ![assignedLane + 1] = Append(@, airspace)],
         airspacesWithLanes |->
             Append(acc.airspacesWithLanes,
                    [index |-> airspace.index, lowerFt |-> airspace.lowerFt,
                     upperFt |-> airspace.upperFt, lane |-> assignedLane])]

RECURSIVE AssignLoop(_, _, _)
AssignLoop(acc, list, i) ==
    IF i > Len(list) THEN acc
    ELSE AssignLoop(AssignOne(acc, list[i]), list, i + 1)

\* const lanes = [], const airspacesWithLanes = []: locals of each call.
FreshLanes == [lanes |-> <<>>, airspacesWithLanes |-> <<>>]

\* assignLanes(airspaces): { airspacesWithLanes, totalLanes: lanes.length }
assignLanes(list) ==
    LET final == AssignLoop(FreshLanes, list, 1)
    IN  [airspacesWithLanes |-> final.airspacesWithLanes, totalLanes |-> Len(final.lanes)]

RECURSIVE InsertByLower(_, _)
\* Insert x after every element whose lowerFt is <= x.lowerFt (stable).
InsertByLower(sorted, x) ==
    IF sorted = <<>> THEN <<x>>
    ELSE IF sorted[Len(sorted)].lowerFt <= x.lowerFt THEN Append(sorted, x)
    ELSE Append(InsertByLower(SubSeq(sorted, 1, Len(sorted) - 1), x), sorted[Len(sorted)])

RECURSIVE SortLoop(_, _, _)
SortLoop(sorted, list, i) ==
    IF i > Len(list) THEN sorted
    ELSE SortLoop(InsertByLower(sorted, list[i]), list, i + 1)

\* .sort((a, b) => a.lowerFt - b.lowerFt): ascending by lower bound, stable.
sortByLowerFt(list) == SortLoop(<<>>, list, 1)

\* A mutant of convertToFeet: a Flight Level is taken for feet.
convertToFeetNoFL(value, unit) == value

\* convertToFeet: Flight Level to feet, anything else assumed in feet.
convertToFeet(value, unit) ==
    IF unit = "FL" THEN value * 100 ELSE value

\* The values used when a feature has no lower or upper limit value.
DefaultLowerValue == 0
DefaultUpperValue == 10000

\* Number(props.x ?? d): a limit value is <<v>>, or <<>> when missing.
ValueOr(field, d) == IF field = <<>> THEN d ELSE field[1]

\* The map() callback: a feature and its input index to a ProcessedAirspace.
ProcessFeature(feature, i) ==
    [index   |-> i - 1,
     lowerFt |-> convertToFeet(ValueOr(feature.lower_limit_value, DefaultLowerValue),
                               feature.lower_limit_unit),
     upperFt |-> convertToFeet(ValueOr(feature.upper_limit_value, DefaultUpperValue),
                               feature.upper_limit_unit)]

\* airspaces.map(...) of the panel, before the sort.
ProcessFeatures(fs) == [i \in DOMAIN fs |-> ProcessFeature(fs[i], i)]

\* The least scale of the chart.
MinChartAltitude == 10000

SetMax(S) == CHOOSE m \in S : \A x \in S : x <= m

\* Math.max(...processedAirspaces.map(a => a.upperFt), 10000)
maxAltitudeOf(list) == SetMax({list[i].upperFt : i \in DOMAIN list} \cup {MinChartAltitude})

\* Math.max(...activeLanes) + 1; Math.max() of no lane is -Infinity, and so
\* is the sum.
MinusInfinity == [finite |-> FALSE, v |-> 0]
Finite(n) == [finite |-> TRUE, v |-> n]

\* overlappingAirspaces, activeLanes, maxActiveLane and numActiveLanes of a box.
numActiveLanes(airspace, all) ==
    LET overlappingAirspaces == {j \in DOMAIN all : doAirspacesOverlap(airspace, all[j])}
        activeLanes == {all[j].lane : j \in overlappingAirspaces}
    IN  IF activeLanes = {} THEN MinusInfinity ELSE Finite(SetMax(activeLanes) + 1)

\* A percentage as a fraction num / den, den > 0.
Fraction(n, d) == [num |-> n, den |-> d]

\* laneWidth = 100 / numActiveLanes; 100 / -Infinity is -0, drawn as 0%.
laneWidthOf(n) == IF n.finite THEN Fraction(100, n.v) ELSE Fraction(0, 1)

\* The box of one airspace: top, bottom, left and width in percent.
BoxOf(airspace, all, maxAltitude) ==
    LET n         == numActiveLanes(airspace, all)
        laneWidth == laneWidthOf(n)
    IN  [index          |-> airspace.index,
         lane           |-> airspace.lane,
         lowerFt        |-> airspace.lowerFt,
         upperFt        |-> airspace.upperFt,
         topPercent     |-> Fraction((maxAltitude - airspace.upperFt) * 100, maxAltitude),
         bottomPercent  |-> Fraction((maxAltitude - airspace.lowerFt) * 100, maxAltitude),
         numActiveLanes |-> n,
         leftPercent    |-> Fraction(airspace.lane * laneWidth.num, laneWidth.den),
         widthPercent   |-> laneWidth]

\* airspacesWithLanes.map(airspace => <div .../>) with the chart's scale.
ChartOf(all, sortedList) ==
    LET maxAltitude == maxAltitudeOf(sortedList)
    IN  [maxAltitude |-> maxAltitude,
         boxes |-> [j \in DOMAIN all |-> BoxOf(all[j], all, maxAltitude)]]

\* The features whose limits are the bounds of a list of regions, in feet.
FeaturesInFeet(list) ==
    [i \in DOMAIN list |->
        [lower_limit_value |-> <<list[i].lowerFt>>, lower_limit_unit |-> "FT",
         upper_limit_value |-> <<list[i].upperFt>>, upper_limit_unit |-> "FT"]]

InitLanes ==
    /\ UiIdle
    /\ airspaces \in AirspaceInputs
    /\ features = FeaturesInFeet(airspaces)
    /\ laneCall = "none"
    /\ airspacesWithLanes = <<>>
    /\ totalLanes = 0
    /\ chart = NoChart
    /\ NotamIdle
    /\ CoordsIdle
    /\ WeatherIdle

\* assignLanes applied to the list as given (any order).
CallAssignLanes ==
    /\ laneCall = "none"
    /\ LET r == assignLanes(airspaces)
       IN  /\ airspacesWithLanes' = r.airspacesWithLanes
           /\ totalLanes' = r.totalLanes
    /\ laneCall' = "assignLanes"
    /\ UNCHANGED <<features, airspaces, chart, notamVars, coordVars, weatherVars, uiVars>>

\* The panel's render: nothing for an empty list, else map, sort,
\* assignLanes and the boxes of the chart; the sorted list is the one the
\* render holds as processedAirspaces.
RenderPanel ==
    /\ laneCall = "none"
    /\ Len(features) > 0
    /\ LET processedAirspaces == sortByLowerFt(ProcessFeatures(features))
           r == assignLanes(processedAirspaces)
       IN  /\ airspaces' = processedAirspaces
           /\ airspacesWithLanes' = r.airspacesWithLanes
           /\ totalLanes' = r.totalLanes
           /\ chart' = ChartOf(r.airspacesWithLanes, processedAirspaces)
    /\ laneCall' = "panel"
    /\ UNCHANGED <<features, notamVars, coordVars, weatherVars, uiVars>>

NextLanes == CallAssignLanes \/ RenderPanel

SpecLanes == InitLanes /\ [][NextLanes]_vars

\* Longest list of features the chart is drawn for.
MaxChartRegions == 5

\* Limits of the charted features, with the altitude in feet they mean; a
\* unit other than FL is feet.
ChartLimits ==
    {[value |-> 0,    unit |-> "FT", feet |-> 0],
     [value |-> 3000, unit |-> "",   feet |-> 3000],
     [value |-> 50,   unit |-> "FL", feet |-> 5000],
     [value |-> 120,  unit |-> "FL", feet |-> 12000]}

FeatureOf(lo, hi) ==
    [lower_limit_value |-> <<lo.value>>, lower_limit_unit |-> lo.unit,
     upper_limit_value |-> <<hi.value>>, upper_limit_unit |-> hi.unit]

\* Features whose lower limit is below the upper limit.
ChartFeatures ==
    {FeatureOf(p[1], p[2]) : p \in {q \in ChartLimits \X ChartLimits : q[1].feet < q[2].feet}}

\* A feature without limit values, and one of no height inside another.
ExampleNoValues ==
    << [lower_limit_value |-> <<>>, lower_limit_unit |-> "",
        upper_limit_value |-> <<>>, upper_limit_unit |-> ""] >>
ExampleNoHeight ==
    << [lower_limit_value |-> <<3000>>, lower_limit_unit |-> "FT",
        upper_limit_value |-> <<120>>,  upper_limit_unit |-> "FL"],
       [lower_limit_value |-> <<50>>,   lower_limit_unit |-> "FL",
        upper_limit_value |-> <<5000>>, upper_limit_unit |-> "FT"] >>

\* A single feature of no height.
ExampleFlat ==
    << [lower_limit_value |-> <<50>>,   lower_limit_unit |-> "FL",
        upper_limit_value |-> <<5000>>, upper_limit_unit |-> "FT"] >>

ChartInputs ==
    (SeqsUpTo(ChartFeatures, MaxChartRegions) \ {<<>>})
        \cup {ExampleNoValues, ExampleNoHeight, ExampleFlat}

InitChart ==
    /\ UiIdle
    /\ features \in ChartInputs
    /\ airspaces = <<>>
    /\ laneCall = "none"
    /\ airspacesWithLanes = <<>>
    /\ totalLanes = 0
    /\ chart = NoChart
    /\ NotamIdle
    /\ CoordsIdle
    /\ WeatherIdle

NextChart == RenderPanel

SpecChart == InitChart /\ [][NextChart]_vars

(***************************************************************************)
(* Coordinate inputs and the call of parseNotamCoordinates                 *)
(***************************************************************************)
\* Most coordinate phrases in one enumerated text.
MaxSegments == 2

\* DMS tokens, with what they mean: valid by the token rules (6 or 7
\* digits, minutes and seconds < 60, degrees <= 90 or 180) and the angle in
\* arc seconds, south and west negative.
LatTokens ==
    << [text |-> <<"5", "1", "0", "7", "1", "8", "N">>, valid |-> TRUE,  arcsec |-> 51 * 3600 + 7 * 60 + 18],
       [text |-> <<"5", "0", "4", "8", "5", "6", "S">>, valid |-> TRUE,  arcsec |-> 0 - (50 * 3600 + 48 * 60 + 56)],
       [text |-> <<"9", "0", "5", "9", "5", "9", "N">>, valid |-> TRUE,  arcsec |-> 90 * 3600 + 59 * 60 + 59],
       [text |-> <<"5", "1", "6", "0", "0", "0", "N">>, valid |-> FALSE, arcsec |-> 0] >>

LonTokens ==
    << [text |-> <<"0", "0", "2", "1", "0", "4", "7", "W">>, valid |-> TRUE, arcsec |-> 0 - (2 * 3600 + 10 * 60 + 47)],
       [text |-> <<"1", "8", "0", "5", "9", "5", "9", "E">>, valid |-> TRUE, arcsec |-> 180 * 3600 + 59 * 60 + 59] >>

\* The phrase that introduces a pair, and the pattern (1..4) whose
\* candidate the phrase is meant to be.
Phrases ==
    << [lead |-> <<"W", "I", " ", "0", ".", "5", "N", "M", " ", "R", "A", "D", "I", "U", "S", " ", "O", "F", " ">>, pattern |-> 1],
       [lead |-> <<"P", "S", "N", " ">>, pattern |-> 2],
       [lead |-> <<"P", "S", "N", ":", " ">>, pattern |-> 2],
       [lead |-> <<"P", "S", "N", ":", " ", "S", "I", "T", "E", " ", "C", "E", "N", "T", "R", "E", " ">>, pattern |-> 2],
       [lead |-> <<"P", "O", "S", "I", "T", "I", "O", "N", " ">>, pattern |-> 2],
       [lead |-> <<"B", "Y", ":", " ">>, pattern |-> 3],
       [lead |-> <<"b", "y", ":", " ">>, pattern |-> 3],
       [lead |-> <<"B", "Y", ":", "\r", "\n">>, pattern |-> 3],
       [lead |-> <<>>, pattern |-> 4] >>

\* The radius of the WI phrase, 0.5 NM, in thousandths
PhraseRadiusMilli == 1000 \div 2

Segments == [phrase : DOMAIN Phrases, lat : DOMAIN LatTokens, lon : DOMAIN LonTokens]

SegmentText(g) ==
    Phrases[g.phrase].lead \o LatTokens[g.lat].text \o <<" ">> \o LonTokens[g.lon].text

RECURSIVE JoinSegments(_)
JoinSegments(segs) ==
    IF segs = <<>> THEN <<>>
    ELSE IF Len(segs) = 1 THEN SegmentText(segs[1])
    ELSE SegmentText(segs[1]) \o <<" ">> \o JoinSegments(Tail(segs))

\* "E) " and the phrases, or "E) RWY CLSD" when there is none
CoordText(segs) ==
    IF segs = <<>> THEN <<"E", ")", " ", "R", "W", "Y", " ", "C", "L", "S", "D">>
    ELSE <<"E", ")", " ">> \o JoinSegments(segs)

CoordInputs == {[segs |-> segs, text |-> CoordText(segs)] : segs \in SeqsUpTo(Segments, MaxSegments)}

InitCoords ==
    /\ UiIdle
    /\ icaoText \in {p.text : p \in CoordInputs}
    /\ coords = NotParsed
    /\ LanesIdle
    /\ NotamIdle
    /\ WeatherIdle

\* The dialog asks for the coordinates of a NOTAM's message.
ParseCoordinates ==
    /\ ~coords.done
    /\ coords' = [done |-> TRUE, result |-> parseNotamCoordinates(icaoText)]
    /\ UNCHANGED <<icaoText, laneVars, notamVars, weatherVars, uiVars>>

NextCoords == ParseCoordinates

SpecCoords == InitCoords /\ [][NextCoords]_vars

(***************************************************************************)
(* METAR: main report and cloud layers (WeatherDialog.tsx)                 *)
(***************************************************************************)
\* The words that end the main report.
TrendWords == <<Chars("RMK"), Chars("TEMPO"), Chars("BECMG")>>

\* /\s(RMK|TEMPO|BECMG)\s/ matches at position i.
TrendSplitAt(s, i) ==
    /\ i <= Len(s) /\ IsSpace(s[i])
    /\ \E w \in DOMAIN TrendWords :
           /\ MatchesAt(s, i + 1, TrendWords[w])
           /\ i + 1 + Len(TrendWords[w]) <= Len(s)
           /\ IsSpace(s[i + 1 + Len(TrendWords[w])])

\* metar.split(/\s(RMK|TEMPO|BECMG)\s/)[0]
mainReportOf(s) ==
    LET at == {i \in DOMAIN s : TrendSplitAt(s, i)}
    IN  IF at = {} THEN s
        ELSE SubSeq(s, 1, (CHOOSE i \in at : \A m \in at : i <= m) - 1)

\* The coverage table, in the order of the alternatives of the pattern.
CoverageCodes ==
    << [code |-> "NSC",   label |-> "No Significant Clouds", percent |-> 0,   clear |-> TRUE],
       [code |-> "SKC",   label |-> "Sky Clear",             percent |-> 0,   clear |-> TRUE],
       [code |-> "CLR",   label |-> "Clear",                 percent |-> 0,   clear |-> TRUE],
       [code |-> "CAVOK", label |-> "CAVOK",                 percent |-> 0,   clear |-> TRUE],
       [code |-> "FEW",   label |-> "Few",                   percent |-> 25,  clear |-> FALSE],
       [code |-> "SCT",   label |-> "Scattered",             percent |-> 50,  clear |-> FALSE],
       [code |-> "BKN",   label |-> "Broken",                percent |-> 75,  clear |-> FALSE],
       [code |-> "OVC",   label |-> "Overcast",              percent |-> 100, clear |-> FALSE] >>

\* The first alternative of (NSC|SKC|CLR|CAVOK|FEW|SCT|BKN|OVC) that matches
\* at position i, 0 if none does.
CoverageAt(s, i) ==
    LET hit == {k \in DOMAIN CoverageCodes : MatchesAt(s, i, Chars(CoverageCodes[k].code))}
    IN  IF hit = {} THEN 0 ELSE CHOOSE k \in hit : \A m \in hit : k <= m

\* (\d{3})? at position i: the three digits, or nothing.
ThreeDigitsAt(s, i) ==
    IF i + 2 <= Len(s) /\ IsDigit(s[i]) /\ IsDigit(s[i + 1]) /\ IsDigit(s[i + 2])
    THEN SubSeq(s, i, i + 2) ELSE <<>>

\* (CB|TCU)? at position i: the suffix, or nothing.
ConvectiveAt(s, i) ==
    IF MatchesAt(s, i, Chars("CB")) THEN "CB"
    ELSE IF MatchesAt(s, i, Chars("TCU")) THEN "TCU"
    ELSE ""

\* One match of the cloud pattern at position i: type, height and suffix.
CloudGroupAt(s, i) ==
    LET k      == CoverageAt(s, i)
        p      == i + Len(CoverageCodes[k].code)
        height == ThreeDigitsAt(s, p)
        cbTcu  == ConvectiveAt(s, p + Len(height))
    IN  [type |-> k, height |-> height, cbTcu |-> cbTcu,
         next |-> p + Len(height) + Len(cbTcu)]

RECURSIVE CloudMatchesFrom(_, _)
\* match(/(NSC|...|OVC)(\d{3})?(CB|TCU)?/g): the matches from position i on.
CloudMatchesFrom(s, i) ==
    IF i > Len(s) THEN <<>>
    ELSE IF CoverageAt(s, i) = 0 THEN CloudMatchesFrom(s, i + 1)
    ELSE <<CloudGroupAt(s, i)>> \o CloudMatchesFrom(s, CloudGroupAt(s, i).next)

cloudMatch(mainReport) == CloudMatchesFrom(mainReport, 1)

\* if (height && type !== 'NSC' && type !== 'SKC' && type !== 'CLR' && type !== 'CAVOK')
IsLayer(cloud) == cloud.height # <<>> /\ ~CoverageCodes[cloud.type].clear

\* layers.push({ coverage, altitude, coveragePercent, label: fullLabel })
LayerOf(cloud) ==
    LET label == CoverageCodes[cloud.type].label
        fullLabel == IF cloud.cbTcu # "" THEN label \o " " \o cloud.cbTcu ELSE label
    IN  [coverage        |-> CoverageCodes[cloud.type].code,
         altitude        |-> parseInt(cloud.height).v * 100,
         coveragePercent |-> CoverageCodes[cloud.type].percent,
         label           |-> fullLabel]

RECURSIVE LayersFrom(_, _)
\* cloudMatch.forEach(...): the layers pushed from match i on.
LayersFrom(matches, i) ==
    IF i > Len(matches) THEN <<>>
    ELSE IF IsLayer(matches[i]) THEN <<LayerOf(matches[i])>> \o LayersFrom(matches, i + 1)
    ELSE LayersFrom(matches, i + 1)

RECURSIVE InsertByAltitude(_, _)
InsertByAltitude(sorted, x) ==
    IF sorted = <<>> THEN <<x>>
    ELSE IF sorted[Len(sorted)].altitude <= x.altitude THEN Append(sorted, x)
    ELSE Append(InsertByAltitude(SubSeq(sorted, 1, Len(sorted) - 1), x), sorted[Len(sorted)])

RECURSIVE SortLayersLoop(_, _, _)
SortLayersLoop(sorted, list, i) ==
    IF i > Len(list) THEN sorted
    ELSE SortLayersLoop(InsertByAltitude(sorted, list[i]), list, i + 1)

\* A mutant of the sort: the layers stay in the order of the report.
sortByAltitudeNone(list) == list

\* layers.sort((a, b) => a.altitude - b.altitude)
sortByAltitude(list) == SortLayersLoop(<<>>, list, 1)

\* parseCloudLayers(metar): CloudLayer[]
parseCloudLayers(text) ==
    sortByAltitude(LayersFrom(cloudMatch(mainReportOf(text)), 1))

(***************************************************************************)
(* METAR: the wind group (AirportsDetailsPanel.tsx, WeatherDialog.tsx)     *)
(***************************************************************************)
\* n digits stand at position i.
DigitsAt(s, i, n) == i + n - 1 <= Len(s) /\ \A k \in i .. i + n - 1 : IsDigit(s[k])

NoWindMatch == [found |-> FALSE, dir |-> <<>>, speed |-> <<>>, gust |-> <<>>]

\* (G(\d{2,3}))?KT at position q: the lengths of gust digits with which
\* the rest of the pattern matches; 0 stands for no gust group.
GustLengthsAt(s, q) ==
    {g \in {2, 3} : MatchesAt(s, q, <<"G">>) /\ DigitsAt(s, q + 1, g)
                        /\ MatchesAt(s, q + 1 + g, Chars("KT"))}
        \cup {g \in {0} : MatchesAt(s, q, Chars("KT"))}

SetMaxOf(S) == CHOOSE m \in S : \A x \in S : x <= m

\* /(\d{3}|VRB)(\d{2,3})(G(\d{2,3}))?KT/ at position i: the quantifiers are
\* greedy, so the longest speed with which the rest matches is taken, and
\* then the longest gust.
windPatternAt(s, i) ==
    LET dirOk    == DigitsAt(s, i, 3) \/ MatchesAt(s, i, Chars("VRB"))
        speedLen == {n \in {2, 3} : DigitsAt(s, i + 3, n) /\ GustLengthsAt(s, i + 3 + n) # {}}
    IN  IF ~dirOk \/ speedLen = {} THEN NoWindMatch
        ELSE LET n == SetMaxOf(speedLen)
                 q == i + 3 + n
                 g == SetMaxOf(GustLengthsAt(s, q))
             IN  [found |-> TRUE,
                  dir   |-> SubSeq(s, i, i + 2),
                  speed |-> SubSeq(s, i + 3, q - 1),
                  gust  |-> IF g = 0 THEN <<>> ELSE SubSeq(s, q + 1, q + g)]

\* text.match(pattern): the match at the leftmost position that has one.
windMatch(s) ==
    LET at == {i \in DOMAIN s : windPatternAt(s, i).found}
    IN  IF at = {} THEN NoWindMatch
        ELSE windPatternAt(s, CHOOSE i \in at : \A m \in at : i <= m)

\* { direction, speed, gust } of a match; null when there is none.
WindDataOf(m) ==
    IF ~m.found THEN [found |-> FALSE, variable |-> FALSE, direction |-> 0, speed |-> 0,
                      hasGust |-> FALSE, gust |-> 0]
    ELSE [found     |-> TRUE,
          variable  |-> m.dir = Chars("VRB"),
          direction |-> IF m.dir = Chars("VRB") THEN 0 ELSE parseInt(m.dir).v,
          speed     |-> parseInt(m.speed).v,
          hasGust   |-> m.gust # <<>>,
          gust      |-> IF m.gust = <<>> THEN 0 ELSE parseInt(m.gust).v]

\* A mutant of parseWind: the gust is taken for the speed.
parseWindGustAsSpeed(text) ==
    LET w == WindDataOf(windMatch(text))
    IN  [w EXCEPT !.speed = IF w.hasGust THEN w.gust ELSE w.speed]

\* parseWind(metar): WindData | null
parseWind(text) == WindDataOf(windMatch(text))

(***************************************************************************)
(* decodeMetar (WeatherDialog.tsx)                                         *)
(***************************************************************************)
RECURSIVE NumberText(_)
\* The decimal text of a natural number, as a template literal prints it.
NumberText(n) ==
    IF n < 10 THEN <<DigitChar(n)>>
    ELSE NumberText(n \div 10) \o <<DigitChar(n % 10)>>

\* The least member of a non-empty set of positions.
Leftmost(at) == CHOOSE i \in at : \A m \in at : i <= m

\* One clause of the decoded text and the section that pushed it.
Part(section, text) == [section |-> section, text |-> text]

\* 1. Wind information: the clause pushed for the wind group, if any. The
\* second branch is kept as the source has it; a report that includes
\* 00000KT matches the pattern of the first.
WindParts(mainReport) ==
    LET m == windMatch(mainReport)
    IN  IF m.found
        THEN LET dir   == IF m.dir = Chars("VRB") THEN Chars("variable")
                          ELSE m.dir \o Chars("°")
                 speed == NumberText(parseInt(m.speed).v)
                 gust  == IF m.gust # <<>> THEN Chars(" gusting to ") \o m.gust ELSE <<>>
             IN  <<Part("wind", Chars("Wind from ") \o dir \o Chars(" at ") \o speed
                                    \o gust \o Chars(" knots"))>>
        ELSE IF includes(mainReport, Chars("00000KT"))
        THEN <<Part("wind", Chars("Calm winds"))>>
        ELSE <<>>

\* /(\d{3})V(\d{3})/ at position i
WindVarAt(s, i) == DigitsAt(s, i, 3) /\ MatchesAt(s, i + 3, <<"V">>) /\ DigitsAt(s, i + 4, 3)

\* Variable wind direction: appended to the last clause. Without a clause
\* the assignment sets the property -1 of the array, which no later step
\* reads.
WithWindVariation(parts, mainReport) ==
    LET at == {i \in DOMAIN mainReport : WindVarAt(mainReport, i)}
    IN  IF at = {} \/ parts = <<>> THEN parts
        ELSE LET i    == Leftmost(at)
                 last == parts[Len(parts)]
             IN  [parts EXCEPT ![Len(parts)] =
                     Part(last.section,
                          last.text \o Chars(", variable between ")
                              \o SubSeq(mainReport, i, i + 2) \o Chars("° and ")
                              \o SubSeq(mainReport, i + 4, i + 6) \o Chars("°"))]

NoVisMatch == [found |-> FALSE, vis |-> <<>>]

\* /\s(\d+|\d+\/\d+)?SM/ at position i: a whole number, else a fraction,
\* else nothing before SM.
VisAt(s, i) ==
    LET d1 == SkipDigits(s, i + 1)
        d2 == SkipDigits(s, d1 + 1)
    IN  IF i > Len(s) \/ ~IsSpace(s[i]) THEN NoVisMatch
        ELSE IF d1 > i + 1 /\ MatchesAt(s, d1, Chars("SM"))
        THEN [found |-> TRUE, vis |-> SubSeq(s, i + 1, d1 - 1)]
        ELSE IF d1 > i + 1 /\ MatchesAt(s, d1, <<"/">>) /\ d2 > d1 + 1
                /\ MatchesAt(s, d2, Chars("SM"))
        THEN [found |-> TRUE, vis |-> SubSeq(s, i + 1, d2 - 1)]
        ELSE IF MatchesAt(s, i + 1, Chars("SM")) THEN [found |-> TRUE, vis |-> <<>>]
        ELSE NoVisMatch

visMatch(mainReport) ==
    LET at == {i \in DOMAIN mainReport : VisAt(mainReport, i).found}
    IN  IF at = {} THEN NoVisMatch ELSE VisAt(mainReport, Leftmost(at))

\* /\s(\d{4})\s/
metricVisMatch(mainReport) ==
    LET at == {i \in DOMAIN mainReport :
                  /\ IsSpace(mainReport[i]) /\ DigitsAt(mainReport, i + 1, 4)
                  /\ i + 5 <= Len(mainReport) /\ IsSpace(mainReport[i + 5])}
    IN  IF at = {} THEN NoVisMatch
        ELSE [found |-> TRUE, vis |-> SubSeq(mainReport, Leftmost(at) + 1, Leftmost(at) + 4)]

\* The digits of a fraction in thousandths, without the zeros at its end.
ThousandthsText(f) ==
    IF f % 100 = 0 THEN <<DigitChar(f \div 100)>>
    ELSE IF f % 10 = 0 THEN <<DigitChar(f \div 100), DigitChar((f \div 10) % 10)>>
    ELSE Pad3(f)

\* `${metres / 1000}`
KilometresText(metres) ==
    NumberText(metres \div 1000)
        \o (IF metres % 1000 = 0 THEN <<>> ELSE <<".">> \o ThousandthsText(metres % 1000))

\* 2. Visibility
VisibilityParts(mainReport) ==
    LET sm == visMatch(mainReport)
        m  == metricVisMatch(mainReport)
    IN  IF sm.found
        THEN IF sm.vis = <<>> \/ parseInt(sm.vis).v >= 10
             THEN <<Part("visibility", Chars("Visibility 10+ statute miles"))>>
             ELSE <<Part("visibility", Chars("Visibility ") \o sm.vis \o Chars(" statute miles"))>>
        ELSE IF m.found /\ parseInt(m.vis).v >= 9999
        THEN <<Part("visibility", Chars("Visibility 10 km or more"))>>
        ELSE IF m.found
        THEN <<Part("visibility", Chars("Visibility ") \o KilometresText(parseInt(m.vis).v)
                                      \o Chars(" km"))>>
        ELSE <<>>

RECURSIVE JoinTexts(_, _)
\* Array.prototype.join
JoinTexts(texts, sep) ==
    IF texts = <<>> THEN <<>>
    ELSE IF Len(texts) = 1 THEN texts[1]
    ELSE texts[1] \o sep \o JoinTexts(Tail(texts), sep)

\* wxCodes: the descriptors, in the order of the pattern's alternatives.
WxDescriptors ==
    << [code |-> "MI", text |-> "Shallow"],   [code |-> "BC", text |-> "Patches"],
       [code |-> "PR", text |-> "Partial"],   [code |-> "DR", text |-> "Drifting"],
       [code |-> "BL", text |-> "Blowing"],   [code |-> "SH", text |-> "Showers"],
       [code |-> "TS", text |-> "Thunderstorm"], [code |-> "FZ", text |-> "Freezing"] >>

\* wxCodes: the phenomena, in the order of the pattern's alternatives.
WxPhenomena ==
    << [code |-> "DZ", text |-> "drizzle"],      [code |-> "RA", text |-> "rain"],
       [code |-> "SN", text |-> "snow"],         [code |-> "SG", text |-> "snow grains"],
       [code |-> "IC", text |-> "ice crystals"], [code |-> "PL", text |-> "ice pellets"],
       [code |-> "GR", text |-> "hail"],         [code |-> "GS", text |-> "small hail"],
       [code |-> "BR", text |-> "mist"],         [code |-> "FG", text |-> "fog"],
       [code |-> "FU", text |-> "smoke"],        [code |-> "VA", text |-> "volcanic ash"],
       [code |-> "DU", text |-> "dust"],         [code |-> "SA", text |-> "sand"],
       [code |-> "HZ", text |-> "haze"],         [code |-> "PY", text |-> "spray"],
       [code |-> "PO", text |-> "dust/sand whirls"], [code |-> "SQ", text |-> "squalls"],
       [code |-> "FC", text |-> "funnel cloud"], [code |-> "SS", text |-> "sandstorm"],
       [code |-> "DS", text |-> "duststorm"] >>

\* The alternative of a table of codes that matches at position i, 0 if
\* none does; the codes of a table have two letters and differ, so at most
\* one does.
CodeAt(table, s, i) ==
    LET hit == {k \in DOMAIN table : MatchesAt(s, i, Chars(table[k].code))}
    IN  IF hit = {} THEN 0 ELSE Leftmost(hit)

\* ([-+]|VC)? at position i: the length of what it takes.
IntensityLengthAt(s, i) ==
    IF MatchesAt(s, i, <<"-">>) \/ MatchesAt(s, i, <<"+">>) THEN 1
    ELSE IF MatchesAt(s, i, Chars("VC")) THEN 2
    ELSE 0

RECURSIVE PhenomenaEndFrom(_, _)
\* (DZ|RA|...|DS)* from position i: the position after the last of them.
PhenomenaEndFrom(s, i) ==
    IF CodeAt(WxPhenomena, s, i) = 0 THEN i ELSE PhenomenaEndFrom(s, i + 2)

\* /\s([-+]|VC)?(MI|...|FZ)?(DZ|...|DS)+/ at position i: the position after
\* the match, 0 if there is none. No code begins with what an intensity or
\* a descriptor is, so a match without one of them that is there fails too.
WxEndAt(s, i) ==
    LET p == i + 1 + IntensityLengthAt(s, i + 1)
        q == IF CodeAt(WxDescriptors, s, p) = 0 THEN p ELSE p + 2
        e == PhenomenaEndFrom(s, q)
    IN  IF IsSpace(s[i]) /\ e > q THEN e ELSE 0

RECURSIVE WxMatchesFrom(_, _)
\* mainReport.match(/.../g): the matched texts from position i on.
WxMatchesFrom(s, i) ==
    IF i > Len(s) THEN <<>>
    ELSE IF WxEndAt(s, i) = 0 THEN WxMatchesFrom(s, i + 1)
    ELSE <<SubSeq(s, i, WxEndAt(s, i) - 1)>> \o WxMatchesFrom(s, WxEndAt(s, i))

wxMatch(mainReport) == WxMatchesFrom(mainReport, 1)

RECURSIVE PhenomenaIn(_, _)
\* wx.match(/(DZ|...|DS)/g): the names of the phenomena found from i on.
PhenomenaIn(wx, i) ==
    IF i > Len(wx) THEN <<>>
    ELSE IF CodeAt(WxPhenomena, wx, i) = 0 THEN PhenomenaIn(wx, i + 1)
    ELSE <<Chars(WxPhenomena[CodeAt(WxPhenomena, wx, i)].text)>> \o PhenomenaIn(wx, i + 2)

\* The callback of wxMatch.map: the description of one matched text.
WxDescription(matched) ==
    LET wx0  == trim(matched)
        n    == IntensityLengthAt(wx0, 1)
        lead == IF MatchesAt(wx0, 1, <<"-">>) THEN Chars("Light ")
                ELSE IF MatchesAt(wx0, 1, <<"+">>) THEN Chars("Heavy ")
                ELSE IF MatchesAt(wx0, 1, Chars("VC")) THEN Chars("Nearby ")
                ELSE <<>>
        wx1  == SubSeq(wx0, n + 1, Len(wx0))
        k    == CodeAt(WxDescriptors, wx1, 1)
        desc == IF k = 0 THEN <<>> ELSE Chars(WxDescriptors[k].text) \o <<" ">>
        wx2  == IF k = 0 THEN wx1 ELSE SubSeq(wx1, 3, Len(wx1))
    IN  trim(lead \o desc \o JoinTexts(PhenomenaIn(wx2, 1), Chars(" and ")))

\* 3. Present weather phenomena
WeatherParts(mainReport) ==
    LET found == wxMatch(mainReport)
    IN  IF found = <<>> THEN <<>>
        ELSE <<Part("weather",
                    JoinTexts([i \in DOMAIN found |-> WxDescription(found[i])], Chars("; ")))>>

\* coverage: the description of each type, in the order of CoverageCodes.
CoverageDescriptions ==
    << "No significant clouds", "Sky clear", "Clear", "Ceiling and visibility OK",
       "Few clouds", "Scattered clouds", "Broken clouds", "Overcast" >>

\* The callback of cloudMatch.map: the description of one cloud group.
CloudDescription(cloud) ==
    Chars(CoverageDescriptions[cloud.type])
        \o (IF cloud.height = <<>> THEN <<>>
            ELSE Chars(" at ") \o NumberText(parseInt(cloud.height).v * 100) \o Chars(" feet"))
        \o (IF cloud.cbTcu = "CB" THEN Chars(" (Cumulonimbus)")
            ELSE IF cloud.cbTcu = "TCU" THEN Chars(" (Towering Cumulus)")
            ELSE <<>>)

\* 4. Cloud coverage
CloudParts(mainReport) ==
    LET found == cloudMatch(mainReport)
    IN  IF found = <<>> THEN <<>>
        ELSE <<Part("clouds",
                    JoinTexts([i \in DOMAIN found |-> CloudDescription(found[i])], Chars(", ")))>>

\* /\s(M?\d{2})\/(M?\d{2})(\s|$)/ at position i: the two groups.
TempAt(s, i) ==
    LET a  == i + 1
        m1 == IF MatchesAt(s, a, <<"M">>) THEN 1 ELSE 0
        b  == a + m1 + 3
        m2 == IF MatchesAt(s, b, <<"M">>) THEN 1 ELSE 0
        e  == b + m2 + 2
    IN  IF /\ IsSpace(s[i])
           /\ DigitsAt(s, a + m1, 2) /\ MatchesAt(s, a + m1 + 2, <<"/">>)
           /\ DigitsAt(s, b + m2, 2)
           /\ (e = Len(s) + 1 \/ (e <= Len(s) /\ IsSpace(s[e])))
        THEN [found |-> TRUE, temp |-> SubSeq(s, a, b - 2), dewpoint |-> SubSeq(s, b, e - 1)]
        ELSE [found |-> FALSE, temp |-> <<>>, dewpoint |-> <<>>]

\* .replace('M', '-'): the first M of the text becomes a minus sign.
MinusForM(t) ==
    LET at == {i \in DOMAIN t : t[i] = "M"}
    IN  IF at = {} THEN t ELSE [t EXCEPT ![Leftmost(at)] = "-"]

\* 5. Temperature and dewpoint
TemperatureParts(mainReport) ==
    LET at == {i \in DOMAIN mainReport : TempAt(mainReport, i).found}
    IN  IF at = {} THEN <<>>
        ELSE LET m == TempAt(mainReport, Leftmost(at))
             IN  <<Part("temperature",
                        Chars("Temperature ") \o MinusForM(m.temp) \o Chars("°C, Dewpoint ")
                            \o MinusForM(m.dewpoint) \o Chars("°C"))>>

\* The positions at which a letter stands before four digits.
FourDigitsAfter(s, letter) ==
    {i \in DOMAIN s : MatchesAt(s, i, <<letter>>) /\ DigitsAt(s, i + 1, 4)}

\* 6. Altimeter setting: A(\d{4}), else Q(\d{4})
AltimeterParts(mainReport) ==
    LET alt == FourDigitsAfter(mainReport, "A")
        qnh == FourDigitsAfter(mainReport, "Q")
    IN  IF alt # {}
        THEN LET i == Leftmost(alt)
             IN  <<Part("altimeter",
                        Chars("Altimeter ") \o SubSeq(mainReport, i + 1, i + 2) \o <<".">>
                            \o SubSeq(mainReport, i + 3, i + 4) \o Chars(" inHg"))>>
        ELSE IF qnh # {}
        THEN LET i == Leftmost(qnh)
             IN  <<Part("altimeter",
                        Chars("QNH ") \o SubSeq(mainReport, i + 1, i + 4) \o Chars(" hPa"))>>
        ELSE <<>>

\* (.+?)(?=\s(?:RMK|BECMG|$)) from position g: the ends the group can
\* have; it holds no line terminator and stands before white space that RMK,
\* BECMG or the end of the text follows.
TempoGroupEnds(s, g) ==
    {k \in g .. Len(s) - 1 :
        /\ \A j \in g .. k : ~IsLineTerminator(s[j])
        /\ IsSpace(s[k + 1])
        /\ \/ MatchesAt(s, k + 2, Chars("RMK"))
           \/ MatchesAt(s, k + 2, Chars("BECMG"))
           \/ k + 1 = Len(s)}

\* /TEMPO\s+\d+\/\d+\s+(.+?)(?=...)/ at position i: the positions at which
\* the group can begin, after at least one of the white spaces that follow
\* the validity.
TempoGroupStarts(s, i) ==
    LET d1 == SkipSpaces(s, i + 5)
        e1 == SkipDigits(s, d1)
        e2 == SkipDigits(s, e1 + 1)
        p3 == SkipSpaces(s, e2)
    IN  IF /\ MatchesAt(s, i, Chars("TEMPO"))
           /\ d1 > i + 5 /\ e1 > d1 /\ MatchesAt(s, e1, <<"/">>) /\ e2 > e1 + 1
        THEN {g \in e2 + 1 .. p3 : TempoGroupEnds(s, g) # {}}
        ELSE {}

\* The group of the match: the leftmost position of TEMPO that has one, the
\* most white space before the group, the shortest group.
tempoMatch(s) ==
    LET at == {i \in DOMAIN s : TempoGroupStarts(s, i) # {}}
    IN  IF at = {} THEN [found |-> FALSE, group |-> <<>>]
        ELSE LET g == SetMaxOf(TempoGroupStarts(s, Leftmost(at)))
             IN  [found |-> TRUE, group |-> SubSeq(s, g, Leftmost(TempoGroupEnds(s, g)))]

\* 7. TEMPO (temporary conditions)
TempoParts(s) ==
    IF includes(s, Chars("TEMPO")) /\ tempoMatch(s).found
    THEN <<Part("tempo", Chars("Temporary conditions: ") \o trim(tempoMatch(s).group))>>
    ELSE <<>>

\* /RMK\s+(.+)$/ at position i: the positions at which the group can
\* begin; it runs to the end of the text and holds no line terminator.
RemarksGroupStarts(s, i) ==
    IF MatchesAt(s, i, Chars("RMK"))
    THEN {g \in i + 4 .. SkipSpaces(s, i + 3) :
             g <= Len(s) /\ \A j \in g .. Len(s) : ~IsLineTerminator(s[j])}
    ELSE {}

remarksMatch(s) ==
    LET at == {i \in DOMAIN s : RemarksGroupStarts(s, i) # {}}
    IN  IF at = {} THEN [found |-> FALSE, group |-> <<>>]
        ELSE [found |-> TRUE,
              group |-> SubSeq(s, SetMaxOf(RemarksGroupStarts(s, Leftmost(at))), Len(s))]

\* The length from which remarks are left out.
RemarksLimit == 50

\* A mutant of the remarks: they are pushed whatever their length.
RemarksPartsAnyLength(s) ==
    IF includes(s, Chars("RMK")) /\ remarksMatch(s).found
    THEN <<Part("remarks", Chars("Remarks: ") \o trim(remarksMatch(s).group))>>
    ELSE <<>>

\* 8. Remarks
RemarksParts(s) ==
    IF /\ includes(s, Chars("RMK")) /\ remarksMatch(s).found
       /\ Len(trim(remarksMatch(s).group)) < RemarksLimit
    THEN <<Part("remarks", Chars("Remarks: ") \o trim(remarksMatch(s).group))>>
    ELSE <<>>

\* The clauses pushed for a report, in the order of the pushes.
PartsOf(s) ==
    LET mainReport == mainReportOf(s)
    IN  WithWindVariation(WindParts(mainReport), mainReport)
            \o VisibilityParts(mainReport)
            \o WeatherParts(mainReport)
            \o CloudParts(mainReport)
            \o TemperatureParts(mainReport)
            \o AltimeterParts(mainReport)
            \o TempoParts(s)
            \o RemarksParts(s)

UnableToDecode == Chars("Unable to decode METAR")

\* decodeMetar(metar): string
decodeMetar(s) ==
    LET parts == PartsOf(s)
    IN  IF Len(parts) > 0
        THEN JoinTexts([i \in DOMAIN parts |-> parts[i].text], Chars(". ")) \o <<".">>
        ELSE UnableToDecode

(***************************************************************************)
(* Wind components on a runway (AirportsDetailsPanel.tsx)                  *)
(***************************************************************************)
\* Math.sin of 0, 10 .. 90 degrees to nine decimals: the first four of them
\* and the five after.
SineNano ==
    << <<0, 0>>, <<1736, 48178>>, <<3420, 20143>>, <<5000, 0>>, <<6427, 87610>>,
       <<7660, 44443>>, <<8660, 25404>>, <<9396, 92621>>, <<9848, 7753>>, <<10000, 0>> >>

\* Math.sin of an angle of d degrees, d a multiple of 10: its sign and the
\* decimals of its absolute value.
SinOf(d) ==
    LET a == d % 360
        b == IF a <= 180 THEN a ELSE a - 180
        k == IF b <= 90 THEN (b \div 10) + 1 ELSE ((180 - b) \div 10) + 1
    IN  [neg |-> a > 180, hi |-> SineNano[k][1], lo |-> SineNano[k][2]]

\* Math.cos of an angle of d degrees.
CosOf(d) == SinOf(d + 90)

\* Math.abs
Abs(n) == IF n < 0 THEN 0 - n ELSE n

\* speed * t for a speed below 1000 and a sine or cosine t: the sign, the
\* whole part and the nine decimals of the product.
Times(speed, t) ==
    LET upper == speed * t.hi
        rest  == (upper % (10 ^ 4)) * (10 ^ 5) + speed * t.lo
    IN  [neg   |-> t.neg /\ speed > 0 /\ (t.hi > 0 \/ t.lo > 0),
         whole |-> (upper \div (10 ^ 4)) + (rest \div (10 ^ 9)),
         frac  |-> rest % (10 ^ 9)]

\* Math.round of a product: the nearest integer. A product that is half-way
\* between two integers in real numbers is a double just below, at or above
\* the half, as the errors of the conversion to radians and of the
\* multiplication fall, so that either neighbour can come out.
MathRound(p) ==
    LET near == IF 2 * p.frac = 10 ^ 9 THEN {p.whole, p.whole + 1}
                ELSE IF 2 * p.frac < 10 ^ 9 THEN {p.whole} ELSE {p.whole + 1}
    IN  IF p.neg THEN {0 - n : n \in near} ELSE near

\* Math.abs of a product
AbsOf(p) == [p EXCEPT !.neg = FALSE]

\* A mutant of calculateWindComponents: the crosswind keeps its sign.
calculateWindComponentsSigned(windDir, windSpeed, runwayHeading) ==
    LET angleDiff == windDir - runwayHeading
    IN  {[headwind |-> h, crosswind |-> c] :
            h \in MathRound(Times(windSpeed, CosOf(angleDiff))),
            c \in MathRound(Times(windSpeed, SinOf(angleDiff)))}

\* calculateWindComponents(windDir, windSpeed, runwayHeading): the results
\* the two roundings can give.
calculateWindComponents(windDir, windSpeed, runwayHeading) ==
    LET angleDiff == windDir - runwayHeading
        headwind  == Times(windSpeed, CosOf(angleDiff))
        crosswind == Times(windSpeed, SinOf(angleDiff))
    IN  {[headwind |-> h, crosswind |-> c] :
            h \in MathRound(headwind), c \in MathRound(AbsOf(crosswind))}

(***************************************************************************)
(* METAR inputs and the call of parseCloudLayers                           *)
(***************************************************************************)
\* Most cloud groups in the main report of an enumerated METAR.
MaxCloudGroups == 2

\* Cloud groups: a coverage code, an altitude in hundreds of feet (-1 when
\* the group has none) and a convective suffix.
CloudGroups ==
    {[code |-> "SCT",   hundreds |-> 25,  suffix |-> ""],
     [code |-> "BKN",   hundreds |-> 40,  suffix |-> ""],
     [code |-> "OVC",   hundreds |-> 100, suffix |-> ""],
     [code |-> "FEW",   hundreds |-> 25,  suffix |-> "CB"],
     [code |-> "OVC",   hundreds |-> 8,   suffix |-> "TCU"],
     [code |-> "BKN",   hundreds |-> -1,  suffix |-> ""],
     [code |-> "NSC",   hundreds |-> -1,  suffix |-> ""],
     [code |-> "CLR",   hundreds |-> -1,  suffix |-> ""],
     [code |-> "CAVOK", hundreds |-> -1,  suffix |-> ""]}

CloudGroupText(g) ==
    Chars(g.code) \o (IF g.hundreds < 0 THEN <<>> ELSE Pad3(g.hundreds)) \o Chars(g.suffix)

RECURSIVE SpacedGroups(_)
\* Each group preceded by a space.
SpacedGroups(gs) ==
    IF gs = <<>> THEN <<>>
    ELSE <<" ">> \o CloudGroupText(gs[1]) \o SpacedGroups(Tail(gs))

\* What may follow the main report: nothing, a trend or remarks that
\* mention clouds of their own, or a bare RMK at the end of the text.
CloudTrailers ==
    {Chars(""), Chars(" TEMPO 4000 BKN008"), Chars(" BECMG SCT030"),
     Chars(" RMK OVC002"), Chars(" RMK")}

CloudReport(gs, trailer) ==
    Chars("EGLL 121350Z 09010KT 9999") \o SpacedGroups(gs) \o Chars(" 15/10 Q1013") \o trailer

\* The groups SCT025 BKN040 OVC100, in this order and in another.
ExampleThreeLayers ==
    << [code |-> "SCT", hundreds |-> 25,  suffix |-> ""],
       [code |-> "BKN", hundreds |-> 40,  suffix |-> ""],
       [code |-> "OVC", hundreds |-> 100, suffix |-> ""] >>
ExampleThreeShuffled ==
    << [code |-> "BKN", hundreds |-> 40,  suffix |-> ""],
       [code |-> "SCT", hundreds |-> 25,  suffix |-> ""],
       [code |-> "OVC", hundreds |-> 100, suffix |-> ""] >>

CloudInputs ==
    {[groups |-> gs, text |-> CloudReport(gs, t)] :
        gs \in SeqsUpTo(CloudGroups, MaxCloudGroups)
                   \cup {ExampleThreeLayers, ExampleThreeShuffled},
        t \in CloudTrailers}

InitClouds ==
    /\ UiIdle
    /\ metar \in {x.text : x \in CloudInputs}
    /\ cloudLayers = NoLayers
    /\ windData = NoWindData
    /\ windCalc = NoWindCalc
    /\ decoded = NotDecoded
    /\ LanesIdle
    /\ NotamIdle
    /\ CoordsIdle

\* The weather dialog draws the cloud chart of the METAR.
ParseClouds ==
    /\ ~cloudLayers.done
    /\ cloudLayers' = [done |-> TRUE, layers |-> parseCloudLayers(metar)]
    /\ UNCHANGED <<metar, windData, windCalc, decoded, laneVars, notamVars, coordVars, uiVars>>

NextClouds == ParseClouds

SpecClouds == InitClouds /\ [][NextClouds]_vars

\* Wind groups: a direction (-1 for VRB), a speed written in 2 or 3
\* digits and a gust (-1 for none) written in as many digits as it needs.
WindTokens ==
    [direction : {-1, 0, 90, 270, 360},
     speed     : {0, 5, 10, 100},
     wide      : BOOLEAN,
     gust      : {-1, 25, 105}]

\* The token is one a report can hold: a speed of three digits is written
\* in three.
WellFormedWind(w) == w.speed >= 100 => w.wide

WindTokenText(w) ==
    (IF w.direction < 0 THEN Chars("VRB") ELSE Pad3(w.direction))
        \o (IF w.wide THEN Pad3(w.speed) ELSE Pad2(w.speed))
        \o (IF w.gust < 0 THEN <<>>
            ELSE <<"G">> \o (IF w.gust >= 100 THEN Pad3(w.gust) ELSE Pad2(w.gust)))
        \o Chars("KT")

\* What stands before the wind group.
WindPrefixes == {Chars("EGLL 121350Z"), Chars("METAR KVRB 121350Z AUTO")}

\* What stands after it.
WindSuffix == Chars(" 9999 SCT025 15/10 Q1013")

\* A report without a wind group, or with a wind in metres per second.
NoWindTexts == {p \o WindSuffix : p \in WindPrefixes}
                   \cup {p \o Chars(" 09005MPS") \o WindSuffix : p \in WindPrefixes}

WindInputs ==
    {[token |-> w, text |-> p \o <<" ">> \o WindTokenText(w) \o WindSuffix] :
        w \in {x \in WindTokens : WellFormedWind(x)}, p \in WindPrefixes}

InitWind ==
    /\ UiIdle
    /\ metar \in {x.text : x \in WindInputs} \cup NoWindTexts
    /\ cloudLayers = NoLayers
    /\ windData = NoWindData
    /\ windCalc = NoWindCalc
    /\ decoded = NotDecoded
    /\ LanesIdle
    /\ NotamIdle
    /\ CoordsIdle

\* The airport panel reads the wind of the METAR.
ParseWind ==
    /\ ~windData.done
    /\ windData' = [done |-> TRUE] @@ parseWind(metar)
    /\ UNCHANGED <<metar, cloudLayers, windCalc, decoded, laneVars, notamVars, coordVars, uiVars>>

NextWind == ParseWind

SpecWind == InitWind /\ [][NextWind]_vars

\* Wind directions as a report gives them and runway headings as the
\* runway numbers 01 to 36 give them, in tens of degrees; speeds in knots,
\* of two and of three digits.
WindDirections == {10 * k : k \in 0 .. 36}
RunwayHeadings == {10 * k : k \in 1 .. 36}
WindSpeeds == {0, 1, 5, 10, 15, 20, 35, 100, 456, 857, 999}

InitComponents ==
    /\ UiIdle
    /\ windCalc \in {[NoWindCalc EXCEPT !.windDir = d, !.windSpeed = s, !.runwayHeading = r] :
                        d \in WindDirections, s \in WindSpeeds, r \in RunwayHeadings}
    /\ metar = <<>>
    /\ cloudLayers = NoLayers
    /\ windData = NoWindData
    /\ decoded = NotDecoded
    /\ LanesIdle
    /\ NotamIdle
    /\ CoordsIdle

\* The airport panel projects the wind on a runway end.
CalculateComponents ==
    /\ ~windCalc.done
    /\ \E r \in calculateWindComponents(windCalc.windDir, windCalc.windSpeed,
                                        windCalc.runwayHeading) :
           windCalc' = [windCalc EXCEPT !.done = TRUE, !.headwind = r.headwind,
                                        !.crosswind = r.crosswind]
    /\ UNCHANGED <<metar, cloudLayers, windData, decoded, laneVars, notamVars, coordVars, uiVars>>

NextComponents == CalculateComponents

SpecComponents == InitComponents /\ [][NextComponents]_vars

\* The groups a report of the enumeration can hold, by section; the index
\* 0 of a descriptor stands for a section without a group.
WindGroups == <<"09010KT", "VRB03G15KT", "27015KT 240V300", "240V300", "00000KT">>
VisibilityGroups == <<"9999", "10SM", "1/2SM", "0800">>
WeatherGroups == <<"-SHRA", "+TSRAGR BR">>
SkyGroups == <<"SCT025", "FEW010CB BKN040", "CAVOK">>
TemperatureGroups == <<"15/10", "M02/M05">>
AltimeterGroups == <<"Q1013", "A2992">>

\* A remarks text of n characters, in words of three letters.
RemarksOfLength(n) == [i \in 1 .. n |-> IF i % 4 = 0 THEN " " ELSE "X"]

\* What follows the main report: its text, whether the TEMPO pattern and
\* the RMK pattern match it, whether it leaves white space after the main
\* report, and the length of its remarks.
Trailers ==
    << [text |-> <<>>, tempo |-> FALSE, rmk |-> FALSE, open |-> FALSE, length |-> 0],
       [text |-> Chars(" TEMPO 1213/1215 4000 RA"),
        tempo |-> FALSE, rmk |-> FALSE, open |-> FALSE, length |-> 0],
       [text |-> Chars(" TEMPO 1213/1215 4000 RA RMK AO2"),
        tempo |-> TRUE, rmk |-> TRUE, open |-> FALSE, length |-> 3],
       [text |-> Chars(" TEMPO 4000 RA RMK AO2"),
        tempo |-> FALSE, rmk |-> TRUE, open |-> FALSE, length |-> 3],
       [text |-> Chars(" TEMPO 1213/1215 4000 RA BECMG 9999 RMK AO2"),
        tempo |-> TRUE, rmk |-> TRUE, open |-> FALSE, length |-> 3],
       [text |-> Chars(" RMK AO2 SLP132"),
        tempo |-> FALSE, rmk |-> TRUE, open |-> FALSE, length |-> 10],
       [text |-> Chars(" RMK ") \o RemarksOfLength(RemarksLimit - 1),
        tempo |-> FALSE, rmk |-> TRUE, open |-> FALSE, length |-> RemarksLimit - 1],
       [text |-> Chars(" RMK ") \o RemarksOfLength(RemarksLimit),
        tempo |-> FALSE, rmk |-> TRUE, open |-> FALSE, length |-> RemarksLimit],
       [text |-> Chars(" RMK"),
        tempo |-> FALSE, rmk |-> FALSE, open |-> TRUE, length |-> 0],
       [text |-> Chars(" TEMPO 1213/1215 4000 RA") \o <<"\r", "\n">> \o Chars("RMK AO2"),
        tempo |-> FALSE, rmk |-> TRUE, open |-> FALSE, length |-> 3],
       [text |-> Chars(" TEMPO 1213/1215 4000") \o <<"\r">> \o Chars("RA RMK AO2"),
        tempo |-> FALSE, rmk |-> TRUE, open |-> FALSE, length |-> 3],
       [text |-> Chars(" RMK AO2") \o <<"\r">>,
        tempo |-> FALSE, rmk |-> FALSE, open |-> FALSE, length |-> 0] >>

Descriptor(w, v, x, c, t, a, r) ==
    [wind |-> w, visibility |-> v, weather |-> x, clouds |-> c, temperature |-> t,
     altimeter |-> a, trailer |-> r]

\* The descriptors: every choice of the sections that are there, each with
\* its first group, and every other group of a section alone and with all
\* the other sections.
Descriptors ==
    LET few == {d \in [wind : 0 .. Len(WindGroups), visibility : 0 .. Len(VisibilityGroups),
                       weather : 0 .. Len(WeatherGroups), clouds : 0 .. Len(SkyGroups),
                       temperature : 0 .. Len(TemperatureGroups),
                       altimeter : 0 .. Len(AltimeterGroups)] :
                   \/ \A f \in DOMAIN d : d[f] <= 1
                   \/ \E f \in DOMAIN d : \/ \A g \in DOMAIN d \ {f} : d[g] = 0
                                          \/ \A g \in DOMAIN d \ {f} : d[g] = 1}
    IN  {Descriptor(d.wind, d.visibility, d.weather, d.clouds, d.temperature, d.altimeter, r) :
            d \in few, r \in DOMAIN Trailers}

\* A group of a section, after a space, or nothing.
GroupText(groups, k) == IF k = 0 THEN <<>> ELSE <<" ">> \o Chars(groups[k])

ReportText(d) ==
    Chars("EGLL 121350Z")
        \o GroupText(WindGroups, d.wind)
        \o GroupText(VisibilityGroups, d.visibility)
        \o GroupText(WeatherGroups, d.weather)
        \o GroupText(SkyGroups, d.clouds)
        \o GroupText(TemperatureGroups, d.temperature)
        \o GroupText(AltimeterGroups, d.altimeter)
        \o Trailers[d.trailer].text

DecodeInputs == {[descriptor |-> d, text |-> ReportText(d)] : d \in Descriptors}

InitDecode ==
    /\ UiIdle
    /\ metar \in {x.text : x \in DecodeInputs}
    /\ cloudLayers = NoLayers
    /\ windData = NoWindData
    /\ windCalc = NoWindCalc
    /\ decoded = NotDecoded
    /\ LanesIdle
    /\ NotamIdle
    /\ CoordsIdle

\* The weather dialog shows the decoded METAR.
DecodeMetar ==
    /\ ~decoded.done
    /\ decoded' = [done |-> TRUE, fallback |-> decodeMetar(metar) = UnableToDecode,
                   parts |-> PartsOf(metar), text |-> decodeMetar(metar)]
    /\ UNCHANGED <<metar, cloudLayers, windData, windCalc, laneVars, notamVars, coordVars, uiVars>>

NextDecode == DecodeMetar

SpecDecode == InitDecode /\ [][NextDecode]_vars

(***************************************************************************)
(* The runway rows of the airport panel (AirportsDetailsPanel.tsx)         *)
(***************************************************************************)
\* ident.replace(/[LRC]/g, '')
WithoutSide(ident) == SelectSeq(ident, LAMBDA c : c \notin {"L", "R", "C"})

\* parseInt(ident.replace(/[LRC]/g, '')) * 10
headingOf(ident) ==
    LET n == parseInt(WithoutSide(ident))
    IN  IF n.nan THEN NaN ELSE Num(n.v * 10)

NaNComponents == [nan |-> TRUE, headwind |-> 0, crosswind |-> 0]

\* calculateWindComponents on a heading that may be NaN: the results it can
\* give; NaN in both components when the heading is NaN.
componentsOn(direction, speed, heading) ==
    IF heading.nan THEN {NaNComponents}
    ELSE {[nan |-> FALSE, headwind |-> r.headwind, crosswind |-> r.crosswind] :
              r \in calculateWindComponents(direction, speed, heading.v)}

\* A mutant of the choice of the end: the high end is taken when both
\* ends have the same headwind.
favoredOfStrict(leComponents, heComponents) ==
    IF ~leComponents.nan /\ ~heComponents.nan /\ leComponents.headwind > heComponents.headwind
    THEN "le" ELSE "he"

\* leComponents.headwind >= heComponents.headwind ? 'le' : 'he'
favoredOf(leComponents, heComponents) ==
    IF ~leComponents.nan /\ ~heComponents.nan /\ leComponents.headwind >= heComponents.headwind
    THEN "le" ELSE "he"

\* The gust components of a row: those of the gust on the heading of the
\* favored end, when the wind has a gust that is not 0.
GustRows(row, wind, favoredHeading) ==
    IF wind.hasGust /\ wind.gust # 0
    THEN {[row EXCEPT !.hasGust = TRUE, !.gust = g] :
              g \in componentsOn(wind.direction, wind.gust, favoredHeading)}
    ELSE {row}

\* The row of a runway for a wind that has a direction: the rows the
\* roundings can give.
RowsWithWind(view, wind) ==
    LET leHeading == headingOf(view.le_ident)
        heHeading == headingOf(view.he_ident)
    IN  UNION {GustRows([view EXCEPT !.done = TRUE, !.le = c[1], !.he = c[2],
                                     !.favoredEnd = favoredOf(c[1], c[2]), !.shown = TRUE,
                                     !.windComponents = IF favoredOf(c[1], c[2]) = "le"
                                                        THEN c[1] ELSE c[2]],
                        wind,
                        IF favoredOf(c[1], c[2]) = "le" THEN leHeading ELSE heHeading) :
                  c \in componentsOn(wind.direction, wind.speed, leHeading)
                            \X componentsOn(wind.direction, wind.speed, heHeading)}

\* The rows of a runway: without a METAR, without a wind group or with a
\* variable wind no end is favored and no components are computed.
RunwayRows(view) ==
    LET wind == parseWind(view.rawOb)
    IN  IF view.hasMetar /\ wind.found /\ ~wind.variable THEN RowsWithWind(view, wind)
        ELSE {[view EXCEPT !.done = TRUE]}

\* The two identifiers of a runway: numbered ends, with and without a
\* side, a helipad and a runway with one identifier.
RunwayIdents ==
    {<<Chars("09"), Chars("27")>>, <<Chars("09L"), Chars("27R")>>,
     <<Chars("18"), Chars("36")>>, <<Chars("06"), Chars("24")>>,
     <<Chars("03C"), Chars("21C")>>, <<Chars("15"), Chars("33")>>,
     <<Chars("02"), Chars("20")>>,
     <<Chars("H1"), Chars("")>>, <<Chars("18"), Chars("")>>}

\* The wind groups of the reports of the airport.
RunwayWindTokens ==
    [direction : {-1, 0, 90, 240, 360},
     speed     : {0, 5, 15},
     wide      : {FALSE},
     gust      : {-1, 0, 25}]
        \cup [direction : {-1, 0, 90, 240, 360},
              speed     : {456},
              wide      : {TRUE},
              gust      : {-1, 857}]

RunwayWindInputs ==
    {[token |-> w, text |-> Chars("EGLL 121350Z ") \o WindTokenText(w) \o WindSuffix] :
        w \in RunwayWindTokens}

IdleButRunway ==
    /\ panels = NoPanels
    /\ notamPanel = NoNotamPanel
    /\ searchBox = NoSearchBox
    /\ notamDialog = NoNotamDialog
    /\ settings = NoSettings

InitRunway ==
    /\ runwayView \in
           {[NoRunwayView EXCEPT !.hasMetar = TRUE, !.rawOb = t, !.le_ident = r[1],
                                 !.he_ident = r[2]] :
               t \in {x.text : x \in RunwayWindInputs} \cup {Chars("EGLL 121350Z") \o WindSuffix},
               r \in RunwayIdents}
           \cup {[NoRunwayView EXCEPT !.le_ident = r[1], !.he_ident = r[2]] : r \in RunwayIdents}
    /\ IdleButRunway
    /\ WeatherIdle
    /\ LanesIdle
    /\ NotamIdle
    /\ CoordsIdle

\* The airport panel renders the row of a runway.
RenderRunway ==
    /\ ~runwayView.done
    /\ runwayView' \in RunwayRows(runwayView)
    /\ UNCHANGED <<panels, notamPanel, searchBox, notamDialog, settings,
                   laneVars, notamVars, coordVars, weatherVars>>

NextRunway == RenderRunway

SpecRunway == InitRunway /\ [][NextRunway]_vars

(***************************************************************************)
(* The weather and NOTAM panels of App                                     *)
(*                                                                         *)
(* A handler queues its state updates and React renders with all of them.  *)
(* The two effects that copy weatherData and notamData into their refs are *)
(* passive and run as a step of their own, after the render.  When the     *)
(* state was set in a click on an element of React, the render and its     *)
(* effects run before any other callback (flushSync holds until they       *)
(* have); when it was set from a promise continuation or from a listener   *)
(* of the map, other callbacks may run first, so a handler may read a ref  *)
(* that is one render behind.  Panel data is named by the ICAO code it     *)
(* carries; a feature is named by its feature_type.                        *)
(***************************************************************************)
PanelAirports == {"EGLL", "LFPG", "KJFK"}

FeatureTypes == {"airspace", "airport", "navaid", "obstacle", "reportingPoint", "airway"}

FeatureLists == {<<>>} \cup {<<a>> : a \in FeatureTypes}
                    \cup {<<a, b>> : a \in FeatureTypes, b \in FeatureTypes}

\* clicked features: features.filter(f => f.properties?.feature_type === type)
FeaturesOfType(clicked, type) == SelectSeq(clicked, LAMBDA f : f = type)

\* The two effects that keep the refs in sync with the state.
SyncRefs(p) ==
    [p EXCEPT !.weatherDataRef = p.weatherData, !.notamDataRef = p.notamData]

handleWeatherOpen(p, data) ==
    [p EXCEPT !.weatherData = data, !.notamData = "null"]

handleWeatherClose(p) ==
    [p EXCEPT !.weatherData = "null"]

handleNotamOpen(p, data) ==
    [p EXCEPT !.notamData = data, !.weatherData = "null"]

handleNotamClose(p) ==
    [p EXCEPT !.notamData = "null"]

\* The panels of App that collapse, with the list each one shows.
PanelNames == {"airspaces", "airports", "navaids", "obstacles", "reportingPoints"}

\* onToggle = setIsXOpen, for the panel of that list.
onToggle(p, panel, newState) ==
    CASE panel = "airspaces" -> [p EXCEPT !.isAirspacesOpen = newState]
      [] panel = "airports" -> [p EXCEPT !.isAirportsOpen = newState]
      [] panel = "navaids" -> [p EXCEPT !.isNavaidsOpen = newState]
      [] panel = "obstacles" -> [p EXCEPT !.isObstaclesOpen = newState]
      [] panel = "reportingPoints" -> [p EXCEPT !.isReportingPointsOpen = newState]

\* The isOpen prop of the panel of that list.
isOpenOf(p, panel) ==
    CASE panel = "airspaces" -> p.isAirspacesOpen
      [] panel = "airports" -> p.isAirportsOpen
      [] panel = "navaids" -> p.isNavaidsOpen
      [] panel = "obstacles" -> p.isObstaclesOpen
      [] panel = "reportingPoints" -> p.isReportingPointsOpen

\* CollapsiblePanel's handleToggle: onToggle(!isOpen).
handleToggle(p, panel) == onToggle(p, panel, ~isOpenOf(p, panel))

handleFeaturesClick(p, clicked) ==
    LET airspaceFeatures == FeaturesOfType(clicked, "airspace")
        airportFeatures == FeaturesOfType(clicked, "airport")
        navaidFeatures == FeaturesOfType(clicked, "navaid")
        obstacleFeatures == FeaturesOfType(clicked, "obstacle")
        reportingPointFeatures == FeaturesOfType(clicked, "reportingPoint")
    IN  [p EXCEPT !.airspaces = airspaceFeatures,
                  !.airports = airportFeatures,
                  !.navaids = navaidFeatures,
                  !.obstacles = obstacleFeatures,
                  !.reportingPoints = reportingPointFeatures,
                  !.isAirspacesOpen = Len(airspaceFeatures) > 0,
                  !.isAirportsOpen = Len(airportFeatures) > 0,
                  !.isNavaidsOpen = Len(navaidFeatures) > 0,
                  !.isObstaclesOpen = Len(obstacleFeatures) > 0,
                  !.isReportingPointsOpen = Len(reportingPointFeatures) > 0,
                  !.weatherData = IF p.weatherDataRef # "null" THEN "null" ELSE @,
                  !.notamData = IF p.notamDataRef # "null" THEN "null" ELSE @]

IdleButPanels ==
    /\ runwayView = NoRunwayView
    /\ notamPanel = NoNotamPanel
    /\ searchBox = NoSearchBox
    /\ notamDialog = NoNotamDialog
    /\ settings = NoSettings

InitPanels ==
    /\ panels = NoPanels
    /\ IdleButPanels
    /\ LanesIdle
    /\ NotamIdle
    /\ CoordsIdle
    /\ WeatherIdle

PanelsOnly ==
    UNCHANGED <<runwayView, notamPanel, searchBox, notamDialog, settings,
                laneVars, notamVars, coordVars, weatherVars>>

\* The state q after a click that React dispatched: when the click set
\* state to another value and a ref is behind, the effects run next.  The
\* data of a panel is a fresh object in every call of an open handler, so
\* opening a panel sets another value even for the airport already shown;
\* null and the booleans are the same value when set again.
AfterClick(q, changed) == [q EXCEPT !.flushSync = (changed /\ q # SyncRefs(q))]

\* The Decode METAR button of an airport row.
HandleWeatherOpen ==
    /\ ~panels.flushSync
    /\ \E data \in PanelAirports :
          panels' = AfterClick(handleWeatherOpen(panels, data), TRUE)
    /\ PanelsOnly

\* The close button of the weather panel.
HandleWeatherClose ==
    /\ ~panels.flushSync
    /\ LET q == handleWeatherClose(panels)
       IN  panels' = AfterClick(q, q # panels)
    /\ PanelsOnly

\* The NOTAM button of an airport row calls onNotamOpen in the click when
\* the country is known, and after the awaited fetch of the country when
\* it is not.
HandleNotamOpen ==
    /\ ~panels.flushSync
    /\ \E data \in PanelAirports, awaited \in BOOLEAN :
          panels' = IF awaited THEN handleNotamOpen(panels, data)
                    ELSE AfterClick(handleNotamOpen(panels, data), TRUE)
    /\ PanelsOnly

\* The close button of the NOTAM panel.
HandleNotamClose ==
    /\ ~panels.flushSync
    /\ LET q == handleNotamClose(panels)
       IN  panels' = AfterClick(q, q # panels)
    /\ PanelsOnly

\* A click on the map, or the idle map after a search result or a
\* favourite was chosen: a listener of the map calls the handler.
HandleFeaturesClick ==
    /\ ~panels.flushSync
    /\ \E clicked \in FeatureLists : panels' = handleFeaturesClick(panels, clicked)
    /\ PanelsOnly

\* A click on the header of a panel; a panel is drawn only when its list
\* has a feature.
HandleToggle ==
    /\ ~panels.flushSync
    /\ \E panel \in PanelNames :
          /\ Len(panels[panel]) > 0
          /\ panels' = AfterClick(handleToggle(panels, panel), TRUE)
    /\ PanelsOnly

\* The effects of the last render run.
RunEffects ==
    /\ panels # SyncRefs(panels)
    /\ panels' = [SyncRefs(panels) EXCEPT !.flushSync = FALSE]
    /\ PanelsOnly

NextPanels ==
    \/ RunEffects
    \/ HandleWeatherOpen
    \/ HandleWeatherClose
    \/ HandleNotamOpen
    \/ HandleNotamClose
    \/ HandleFeaturesClick
    \/ HandleToggle

SpecPanels == InitPanels /\ [][NextPanels]_vars

(***************************************************************************)
(* NotamPanel: the fetch started when the ICAO code changes                *)
(*                                                                         *)
(* icaoCode is the prop of the last render and deps the icaoCode of the     *)
(* effect's last run; the effect runs after a render whose icaoCode is not *)
(* the one in deps, and before the next render.  inFlight holds the        *)
(* requests whose response has not arrived, each with the code it asked    *)
(* for; issued counts the requests made.  A list is named by the code      *)
(* whose NOTAMs it holds.                                                  *)
(***************************************************************************)
MaxFetches == 3

ResponseKinds == {"list", "empty", "failed"}

\* The effect body, run after a render with another icaoCode: up to the
\* first await of fetchNotams.
NotamEffect(p) ==
    IF p.icaoCode = "null"
    THEN [p EXCEPT !.deps = p.icaoCode, !.notams = NoList,
                   !.loading = FALSE, !.error = "null"]
    ELSE [p EXCEPT !.deps = p.icaoCode, !.loading = TRUE, !.error = "null",
                   !.inFlight = @ \cup {[code |-> p.icaoCode, id |-> p.issued + 1]},
                   !.issued = @ + 1]

\* The rest of fetchNotams, run when the response of a request arrives.
NotamResponse(p, request, kind) ==
    LET settled == [p EXCEPT !.inFlight = @ \ {request}, !.loading = FALSE]
    IN  CASE kind = "list" ->
               [settled EXCEPT !.notams = [code |-> request.code, entries |-> "list"]]
          [] kind = "empty" ->
               [settled EXCEPT !.notams = [code |-> request.code, entries |-> "none"]]
          [] OTHER ->
               [settled EXCEPT !.error = request.code, !.notams = NoList]

IdleButNotamPanel ==
    /\ runwayView = NoRunwayView
    /\ panels = NoPanels
    /\ searchBox = NoSearchBox
    /\ notamDialog = NoNotamDialog
    /\ settings = NoSettings

InitNotamPanel ==
    /\ notamPanel = NoNotamPanel
    /\ IdleButNotamPanel
    /\ LanesIdle
    /\ NotamIdle
    /\ CoordsIdle
    /\ WeatherIdle

NotamPanelOnly ==
    UNCHANGED <<runwayView, panels, searchBox, notamDialog, settings,
                laneVars, notamVars, coordVars, weatherVars>>

\* App renders the panel with the code of another airport.
ChangeIcaoCode ==
    /\ notamPanel.deps = notamPanel.icaoCode
    /\ \E icaoCode \in PanelAirports :
          /\ icaoCode # notamPanel.icaoCode
          /\ notamPanel.issued < MaxFetches
          /\ notamPanel' = [notamPanel EXCEPT !.icaoCode = icaoCode]
    /\ NotamPanelOnly

\* App renders the panel with no code: the panel is closed.
CloseNotamPanel ==
    /\ notamPanel.deps = notamPanel.icaoCode
    /\ notamPanel.icaoCode # "null"
    /\ notamPanel' = [notamPanel EXCEPT !.icaoCode = "null"]
    /\ NotamPanelOnly

\* The effect of the last render runs.
RunNotamEffect ==
    /\ notamPanel.deps # notamPanel.icaoCode
    /\ notamPanel' = NotamEffect(notamPanel)
    /\ NotamPanelOnly

FetchCompletes ==
    /\ \E request \in notamPanel.inFlight : \E kind \in ResponseKinds :
          notamPanel' = NotamResponse(notamPanel, request, kind)
    /\ NotamPanelOnly

NextNotamPanel ==
    \/ ChangeIcaoCode
    \/ CloseNotamPanel
    \/ RunNotamEffect
    \/ FetchCompletes

SpecNotamPanel == InitNotamPanel /\ [][NextNotamPanel]_vars

(***************************************************************************)
(* SearchBox                                                               *)
(*                                                                         *)
(* map tells whether the map instance has arrived; timer is the 300 ms     *)
(* debounce timer of the effect's last run: whether it is still armed, and *)
(* the query and the map of the render that armed it, which its callback   *)
(* searches with.  The effect runs as a step of its own after a render     *)
(* with another query or another map; after a change of the query, made in *)
(* an event React dispatched, it runs before any other callback.  selected *)
(* is the id of the result last handed to handleSelect; threw records a    *)
(* TypeError raised by a handler.  selectedIndex counts from 0 as in the   *)
(* source.                                                                 *)
(***************************************************************************)
MaxQuery == 3

ResultLimit == 50

MinQueryLength == 2

ToLowerChar(c) ==
    IF IsUpper(c) THEN LowerLetters[CHOOSE k \in DOMAIN UpperLetters : UpperLetters[k] = c]
    ELSE c

\* String.prototype.toLowerCase
toLowerCase(s) == [i \in DOMAIN s |-> ToLowerChar(s[i])]

LetterRank(c) == CHOOSE k \in DOMAIN LowerLetters : LowerLetters[k] = ToLowerChar(c)

RECURSIVE localeCompare(_, _)
\* String.prototype.localeCompare for names of letters that differ beyond case.
localeCompare(a, b) ==
    IF a = <<>> /\ b = <<>> THEN 0
    ELSE IF a = <<>> THEN -1
    ELSE IF b = <<>> THEN 1
    ELSE IF LetterRank(a[1]) < LetterRank(b[1]) THEN -1
    ELSE IF LetterRank(a[1]) > LetterRank(b[1]) THEN 1
    ELSE localeCompare(Tail(a), Tail(b))

\* map.querySourceFeatures('openaip', ...) for the three source layers.
AirportFeatures ==
    <<[name |-> Chars("Lee"), icao_code |-> Chars("EGLE"), iata_code |-> <<>>],
      [name |-> Chars("Gleg"), icao_code |-> Chars("EGLG"), iata_code |-> Chars("GLG")],
      [name |-> Chars("Gleg"), icao_code |-> Chars("EGLG"), iata_code |-> Chars("GLG")],
      [name |-> Chars("Elle"), icao_code |-> Chars("LFEL"), iata_code |-> <<>>]>>

NavaidFeatures == <<[name |-> Chars("Leg"), identifier |-> Chars("LEG")]>>

ReportingPointFeatures == <<[name |-> Chars("Egg"), source_id |-> Chars("7")]>>

RECURSIVE SearchAirports(_, _, _, _)
SearchAirports(foundResults, seenAirports, lowered, i) ==
    IF i > Len(AirportFeatures) THEN foundResults
    ELSE LET props == AirportFeatures[i]
             airportKey == props.icao_code
         IN  IF Len(foundResults) >= ResultLimit \/ airportKey \in seenAirports
             THEN SearchAirports(foundResults, seenAirports, lowered, i + 1)
             ELSE IF \/ includes(toLowerCase(props.name), lowered)
                     \/ includes(toLowerCase(props.icao_code), lowered)
                     \/ includes(toLowerCase(props.iata_code), lowered)
             THEN SearchAirports(
                    Append(foundResults,
                           [id |-> Chars("airport-") \o props.icao_code,
                            name |-> props.name, icao |-> props.icao_code]),
                    seenAirports \cup {airportKey}, lowered, i + 1)
             ELSE SearchAirports(foundResults, seenAirports, lowered, i + 1)

RECURSIVE SearchNavaids(_, _, _, _)
SearchNavaids(foundResults, seenNavaids, lowered, i) ==
    IF i > Len(NavaidFeatures) THEN foundResults
    ELSE LET props == NavaidFeatures[i]
             navaidKey == props.identifier
         IN  IF Len(foundResults) >= ResultLimit \/ navaidKey \in seenNavaids
             THEN SearchNavaids(foundResults, seenNavaids, lowered, i + 1)
             ELSE IF \/ includes(toLowerCase(props.name), lowered)
                     \/ includes(toLowerCase(props.identifier), lowered)
             THEN SearchNavaids(
                    Append(foundResults,
                           [id |-> Chars("navaid-") \o props.identifier,
                            name |-> props.name, icao |-> <<>>]),
                    seenNavaids \cup {navaidKey}, lowered, i + 1)
             ELSE SearchNavaids(foundResults, seenNavaids, lowered, i + 1)

RECURSIVE SearchReportingPoints(_, _, _, _)
SearchReportingPoints(foundResults, seenReportingPoints, lowered, i) ==
    IF i > Len(ReportingPointFeatures) THEN foundResults
    ELSE LET props == ReportingPointFeatures[i]
             rpKey == props.source_id
         IN  IF Len(foundResults) >= ResultLimit \/ rpKey \in seenReportingPoints
             THEN SearchReportingPoints(foundResults, seenReportingPoints, lowered, i + 1)
             ELSE IF includes(toLowerCase(props.name), lowered)
             THEN SearchReportingPoints(
                    Append(foundResults,
                           [id |-> Chars("reportingPoint-") \o props.source_id,
                            name |-> props.name, icao |-> <<>>]),
                    seenReportingPoints \cup {rpKey}, lowered, i + 1)
             ELSE SearchReportingPoints(foundResults, seenReportingPoints, lowered, i + 1)

\* The comparator of foundResults.sort: exact matches first, then by name.
CompareResults(a, b, lowered) ==
    IF toLowerCase(a.name) = lowered \/ toLowerCase(a.icao) = lowered THEN -1
    ELSE IF toLowerCase(b.name) = lowered \/ toLowerCase(b.icao) = lowered THEN 1
    ELSE localeCompare(a.name, b.name)

RECURSIVE InsertResult(_, _, _)
InsertResult(sorted, x, lowered) ==
    IF sorted = <<>> THEN <<x>>
    ELSE IF CompareResults(sorted[Len(sorted)], x, lowered) <= 0 THEN Append(sorted, x)
    ELSE Append(InsertResult(SubSeq(sorted, 1, Len(sorted) - 1), x, lowered),
                sorted[Len(sorted)])

RECURSIVE SortResults(_, _, _, _)
SortResults(sorted, list, i, lowered) ==
    IF i > Len(list) THEN sorted
    ELSE SortResults(InsertResult(sorted, list[i], lowered), list, i + 1, lowered)

\* performSearch of the render whose map prop is map; selectedIndex is not
\* among the state it sets.
performSearch(b, map, searchQuery) ==
    IF ~map \/ Len(searchQuery) < MinQueryLength
    THEN [b EXCEPT !.results = <<>>]
    ELSE LET lowered == toLowerCase(searchQuery)
             airportsFound == SearchAirports(<<>>, {}, lowered, 1)
             navaidsFound == SearchNavaids(airportsFound, {}, lowered, 1)
             foundResults == SearchReportingPoints(navaidsFound, {}, lowered, 1)
         IN  [b EXCEPT !.results = SortResults(<<>>, foundResults, 1, lowered),
                       !.isOpen = TRUE]

\* What results[i] gives beyond the list (undefined).
UndefinedResult == [id |-> Chars("undefined"), name |-> <<>>, icao |-> <<>>]

\* handleSelect; reading the coordinates of an undefined result raises a
\* TypeError before any state is set.
handleSelect(b, result) ==
    IF ~b.map THEN b
    ELSE IF result = UndefinedResult THEN [b EXCEPT !.threw = TRUE]
    ELSE [b EXCEPT !.selected = result.id, !.query = <<>>, !.results = <<>>,
                   !.isOpen = FALSE, !.selectedIndex = -1]

handleClear(b) ==
    [b EXCEPT !.query = <<>>, !.results = <<>>, !.isOpen = FALSE,
              !.selectedIndex = -1]

\* results[i] for a 0-based i
ResultAt(b, i) ==
    IF i >= 0 /\ i < Len(b.results) THEN b.results[i + 1] ELSE UndefinedResult

handleKeyDown(b, key) ==
    IF ~b.isOpen \/ Len(b.results) = 0 THEN b
    ELSE IF key = "ArrowDown"
    THEN [b EXCEPT !.selectedIndex = IF @ < Len(b.results) - 1 THEN @ + 1 ELSE @]
    ELSE IF key = "ArrowUp"
    THEN [b EXCEPT !.selectedIndex = IF @ > 0 THEN @ - 1 ELSE @]
    ELSE IF key = "Enter" /\ b.selectedIndex >= 0
    THEN handleSelect(b, ResultAt(b, b.selectedIndex))
    ELSE IF key = "Escape"
    THEN [b EXCEPT !.isOpen = FALSE, !.selectedIndex = -1]
    ELSE b

QueryLetters == {"e", "g", "l", "L"}

Keys == {"ArrowDown", "ArrowUp", "Enter", "Escape"}

IdleButSearchBox ==
    /\ runwayView = NoRunwayView
    /\ panels = NoPanels
    /\ notamPanel = NoNotamPanel
    /\ notamDialog = NoNotamDialog
    /\ settings = NoSettings

\* The debounce effect: the clean-up clears the timer of the last run and a
\* new one is armed with the query and performSearch of this render.
DebounceEffect(b) ==
    [b EXCEPT !.timer = [armed |-> TRUE, query |-> b.query, map |-> b.map]]

\* The dependencies of the debounce effect are those of its last run.
SameDeps(b) == b.query = b.timer.query /\ b.map = b.timer.map

\* After the first render the debounce timer is armed for the empty query.
InitSearchBox ==
    /\ searchBox = DebounceEffect(NoSearchBox)
    /\ IdleButSearchBox
    /\ LanesIdle
    /\ NotamIdle
    /\ CoordsIdle
    /\ WeatherIdle

SearchBoxOnly ==
    UNCHANGED <<runwayView, panels, notamPanel, notamDialog, settings,
                laneVars, notamVars, coordVars, weatherVars>>

\* No effect has to run before the next callback: the query is the one of
\* the effect's last run.
Flushed == searchBox.query = searchBox.timer.query

\* The effect of the last render runs.
RunDebounceEffect ==
    /\ ~SameDeps(searchBox)
    /\ searchBox' = DebounceEffect(searchBox)
    /\ SearchBoxOnly

\* onMapReady, called by the map when it has loaded: App renders the box
\* with the map.
MapReady ==
    /\ Flushed
    /\ ~searchBox.map
    /\ searchBox' = [searchBox EXCEPT !.map = TRUE]
    /\ SearchBoxOnly

\* onChange with one more letter typed
TypeLetter ==
    /\ Flushed
    /\ Len(searchBox.query) < MaxQuery
    /\ \E c \in QueryLetters :
          searchBox' = [searchBox EXCEPT !.query = Append(@, c)]
    /\ SearchBoxOnly

\* onChange with the last letter deleted
DeleteLetter ==
    /\ Flushed
    /\ searchBox.query # <<>>
    /\ searchBox' = [searchBox EXCEPT !.query = SubSeq(@, 1, Len(@) - 1)]
    /\ SearchBoxOnly

\* The debounce timer fires: performSearch(query) of the render that armed it.
DebouncedSearch ==
    /\ Flushed
    /\ searchBox.timer.armed
    /\ searchBox' = performSearch([searchBox EXCEPT !.timer.armed = FALSE],
                                  searchBox.timer.map, searchBox.timer.query)
    /\ SearchBoxOnly

FocusInput ==
    /\ Flushed
    /\ Len(searchBox.query) >= MinQueryLength
    /\ searchBox' = [searchBox EXCEPT !.isOpen = TRUE]
    /\ SearchBoxOnly

ClickOutside ==
    /\ Flushed
    /\ searchBox' = [searchBox EXCEPT !.isOpen = FALSE]
    /\ SearchBoxOnly

KeyDown ==
    /\ Flushed
    /\ \E key \in Keys : searchBox' = handleKeyDown(searchBox, key)
    /\ SearchBoxOnly

MouseEnter ==
    /\ Flushed
    /\ searchBox.isOpen
    /\ \E index \in 0 .. Len(searchBox.results) - 1 :
          searchBox' = [searchBox EXCEPT !.selectedIndex = index]
    /\ SearchBoxOnly

ClickResult ==
    /\ Flushed
    /\ searchBox.isOpen
    /\ \E index \in 0 .. Len(searchBox.results) - 1 :
          searchBox' = handleSelect(searchBox, ResultAt(searchBox, index))
    /\ SearchBoxOnly

ClickClear ==
    /\ Flushed
    /\ searchBox.query # <<>>
    /\ searchBox' = handleClear(searchBox)
    /\ SearchBoxOnly

NextSearchBox ==
    \/ RunDebounceEffect
    \/ MapReady
    \/ TypeLetter
    \/ DeleteLetter
    \/ DebouncedSearch
    \/ FocusInput
    \/ ClickOutside
    \/ KeyDown
    \/ MouseEnter
    \/ ClickResult
    \/ ClickClear

SpecSearchBox == InitSearchBox /\ [][NextSearchBox]_vars

(***************************************************************************)
(* The settings hook (useSettings)                                         *)
(***************************************************************************)
RECURSIVE Unique(_)
\* [...new Set(list)]: the first occurrence of every value, in order.
Unique(list) ==
    IF list = <<>> THEN <<>>
    ELSE LET front == Unique(SubSeq(list, 1, Len(list) - 1))
             last == list[Len(list)]
         IN  IF \E k \in DOMAIN front : front[k] = last THEN front ELSE Append(front, last)

\* { ...prev, ...newSettings }: every field of prev, overwritten or joined
\* by the fields of newSettings.
updateSettings(prev, newSettings) ==
    [f \in DOMAIN prev \cup DOMAIN newSettings |->
        IF f \in DOMAIN newSettings THEN newSettings[f] ELSE prev[f]]

resetSettings(prev) == DEFAULT_SETTINGS

\* addFavourite without the filter that drops the entry of the same id.
addFavouriteAppend(prev, favourite) ==
    [prev EXCEPT !.favourites = Append(@, favourite)]

addFavourite(prev, favourite) ==
    [prev EXCEPT !.favourites =
        Append(SelectSeq(@, LAMBDA f : f.id # favourite.id), favourite)]

removeFavourite(prev, id) ==
    [prev EXCEPT !.favourites = SelectSeq(@, LAMBDA f : f.id # id)]

clearAllFavourites(prev) == [prev EXCEPT !.favourites = <<>>]

hideNotam(prev, notamNumber) ==
    [prev EXCEPT !.hiddenNotams = Unique(Append(@, notamNumber))]

unhideNotam(prev, notamNumber) ==
    [prev EXCEPT !.hiddenNotams = SelectSeq(@, LAMBDA n : n # notamNumber)]

\* isNotamHidden answering false for every number.
isNotamHiddenNever(current, notamNumber) == FALSE

isNotamHidden(current, notamNumber) ==
    \E k \in DOMAIN current.hiddenNotams : current.hiddenNotams[k] = notamNumber

clearAllHiddenNotams(prev) == [prev EXCEPT !.hiddenNotams = <<>>]

FavouriteIds == {"EGLL", "LFPG", "BIG"}

FavouriteNames == {"Heathrow", "London Heathrow"}

Favourites == {[type |-> "airport", id |-> i, name |-> n] : i \in FavouriteIds, n \in FavouriteNames}

NotamNumbers == {"A0001/25", "A0002/25", "B0107/25"}

\* The partial settings the settings dialog hands to onUpdateSettings.
SettingsChanges ==
    << [runwayLengthUnit |-> "feet"], [runwayLengthUnit |-> "meters"],
       [showObstacles |-> TRUE], [showObstacles |-> FALSE],
       [showReportingPoints |-> TRUE], [showReportingPoints |-> FALSE],
       [hideAirways |-> TRUE], [hideAirways |-> FALSE] >>

IdleButSettings ==
    /\ runwayView = NoRunwayView
    /\ panels = NoPanels
    /\ notamPanel = NoNotamPanel
    /\ searchBox = NoSearchBox
    /\ notamDialog = NoNotamDialog

InitSettings ==
    /\ settings = DEFAULT_SETTINGS
    /\ IdleButSettings
    /\ LanesIdle
    /\ NotamIdle
    /\ CoordsIdle
    /\ WeatherIdle

SettingsOnly ==
    UNCHANGED <<runwayView, panels, notamPanel, searchBox, notamDialog,
                laneVars, notamVars, coordVars, weatherVars>>

UpdateSettings ==
    /\ \E k \in DOMAIN SettingsChanges : settings' = updateSettings(settings, SettingsChanges[k])
    /\ SettingsOnly

ResetSettings ==
    /\ settings' = resetSettings(settings)
    /\ SettingsOnly

AddFavourite ==
    /\ \E favourite \in Favourites : settings' = addFavourite(settings, favourite)
    /\ SettingsOnly

RemoveFavourite ==
    /\ \E id \in FavouriteIds : settings' = removeFavourite(settings, id)
    /\ SettingsOnly

ClearAllFavourites ==
    /\ settings' = clearAllFavourites(settings)
    /\ SettingsOnly

HideNotam ==
    /\ \E notamNumber \in NotamNumbers : settings' = hideNotam(settings, notamNumber)
    /\ SettingsOnly

UnhideNotam ==
    /\ \E notamNumber \in NotamNumbers : settings' = unhideNotam(settings, notamNumber)
    /\ SettingsOnly

ClearAllHiddenNotams ==
    /\ settings' = clearAllHiddenNotams(settings)
    /\ SettingsOnly

NextSettings ==
    \/ UpdateSettings
    \/ ResetSettings
    \/ AddFavourite
    \/ RemoveFavourite
    \/ ClearAllFavourites
    \/ HideNotam
    \/ UnhideNotam
    \/ ClearAllHiddenNotams

SpecSettings == InitSettings /\ [][NextSettings]_vars

(***************************************************************************)
(* NotamDialog: the list of NOTAMs, hiding and expanding                   *)
(*                                                                         *)
(* notams is the list handed over by the panel, expandedNotams the set of  *)
(* list indices (from 0) showing the full message, t the clock at the      *)
(* last render.                                                            *)
(***************************************************************************)
\* String.prototype.endsWith
endsWith(s, lit) == Len(s) >= Len(lit) /\ MatchesAt(s, Len(s) - Len(lit) + 1, lit)

NotamOf(number, startDate, endDate, mark, summary) ==
    [notamNumber |-> number, startDate |-> startDate, endDate |-> endDate,
     icaoMessage |-> MessageNoD \o Chars(mark),
     traditionalMessageFrom4thWord |-> Chars(summary)]

NotamRunway == NotamOf("A0001/25", DateBefore, DateAfter, " RWY 09L", "RWY 09L CLSD DUE TO...")
NotamTaxiway == NotamOf("A0002/25", DateBefore, DateMidWeek, " TWY A", "TWY A CLSD BTN...")
NotamCrane == NotamOf("B0107/25", DateBefore, PermText, " CRANE", "CRANE ERECTED 1NM...")
NotamRunwayLights == NotamOf("A0001/25", DateMidWeek, DateAfter, " LGT", "RWY 09L LGT U/S")
NotamOld == NotamOf("A0090/24", DateBefore, DateBefore, " OLD", "APRON CLSD...")

NotamLists ==
    {<<NotamRunway, NotamTaxiway, NotamCrane>>,
     <<NotamRunway, NotamTaxiway, NotamCrane, NotamRunwayLights>>,
     <<NotamOld, NotamTaxiway, NotamRunway, NotamCrane>>,
     <<NotamTaxiway, NotamRunwayLights>>,
     <<NotamOld>>}

LaterInWeek == DateUTC(2025, 0, 9, 0, 0)

RenderTimes == {WeekStart, LaterInWeek}

\* getNotamStatus of every NOTAM of the lists at every time of a render.
StatusAt ==
    [item \in UNION {Range(list) : list \in NotamLists}, t \in RenderTimes |->
        getNotamStatus(item.startDate, item.endDate, item.icaoMessage, t)]

NotExpired(item, t) == StatusAt[item, t].status # "expired"

\* The NOTAMs shown: neither expired nor hidden.
activeNotams(notams, current, t) ==
    SelectSeq(notams, LAMBDA item :
        NotExpired(item, t) /\ ~isNotamHidden(current, item.notamNumber))

hiddenCount(notams, current, t) ==
    Len(SelectSeq(notams, LAMBDA item :
        NotExpired(item, t) /\ isNotamHidden(current, item.notamNumber)))

toggleNotamExpansion(prev, index) ==
    IF index \in prev THEN prev \ {index} ELSE prev \cup {index}

\* What the map over activeNotams shows of each NOTAM.
RenderedNotams(d, current) ==
    LET active == activeNotams(d.notams, current, d.t)
    IN  [k \in DOMAIN active |->
            [notam |-> active[k],
             idx |-> k - 1,
             expanded |-> (k - 1) \in d.expandedNotams,
             message |-> IF (k - 1) \in d.expandedNotams
                         THEN active[k].icaoMessage
                         ELSE active[k].traditionalMessageFrom4thWord,
             canToggle |-> endsWith(active[k].traditionalMessageFrom4thWord, Chars("..."))]]

IdleButDialog ==
    /\ runwayView = NoRunwayView
    /\ panels = NoPanels
    /\ notamPanel = NoNotamPanel
    /\ searchBox = NoSearchBox

InitDialog ==
    /\ \E list \in NotamLists : notamDialog = [NoNotamDialog EXCEPT !.notams = list]
    /\ settings = DEFAULT_SETTINGS
    /\ IdleButDialog
    /\ LanesIdle
    /\ NotamIdle
    /\ CoordsIdle
    /\ WeatherIdle

DialogOnly ==
    UNCHANGED <<runwayView, panels, notamPanel, searchBox,
                laneVars, notamVars, coordVars, weatherVars>>

\* The eye-slash button of a shown NOTAM
ClickHide ==
    /\ \E row \in Range(RenderedNotams(notamDialog, settings)) :
          settings' = hideNotam(settings, row.notam.notamNumber)
    /\ UNCHANGED notamDialog
    /\ DialogOnly

\* The Show All button, present when hiddenCount > 0
ClickShowAll ==
    /\ hiddenCount(notamDialog.notams, settings, notamDialog.t) > 0
    /\ settings' = clearAllHiddenNotams(settings)
    /\ UNCHANGED notamDialog
    /\ DialogOnly

\* The Show Full Message / Show Summary button of a shown NOTAM
ClickToggle ==
    /\ \E row \in Range(RenderedNotams(notamDialog, settings)) :
          /\ row.canToggle
          /\ notamDialog' =
                [notamDialog EXCEPT !.expandedNotams = toggleNotamExpansion(@, row.idx)]
    /\ UNCHANGED settings
    /\ DialogOnly

\* The one-minute interval re-renders the dialog at a later time.
MinuteTick ==
    /\ notamDialog.t = WeekStart
    /\ notamDialog' = [notamDialog EXCEPT !.t = LaterInWeek]
    /\ UNCHANGED settings
    /\ DialogOnly

NextDialog ==
    \/ ClickHide
    \/ ClickShowAll
    \/ ClickToggle
    \/ MinuteTick

SpecDialog == InitDialog /\ [][NextDialog]_vars

(***************************************************************************)
(* Claims about the lane layout                                            *)
(***************************************************************************)
\* The claim's own reading of "overlap": neither region's upper bound is
\* <= the other's lower bound.
OverlapByBounds(a, b) == a.upperFt > b.lowerFt /\ b.upperFt > a.lowerFt

\* The result holds exactly the regions of the input, bounds unchanged.
ResultIsInput ==
    /\ Len(airspacesWithLanes) = Len(airspaces)
    /\ \A i \in DOMAIN airspaces : \E j \in DOMAIN airspacesWithLanes :
           /\ airspacesWithLanes[j].index = airspaces[i].index
           /\ airspacesWithLanes[j].lowerFt = airspaces[i].lowerFt
           /\ airspacesWithLanes[j].upperFt = airspaces[i].upperFt

\* C1: for every input list (any order, inverted bounds included), after
\* assignLanes the result holds every input region, and no two distinct
\* regions that were given the same lane index overlap vertically.
C1_NoOverlapWithinLane ==
    laneCall # "none" =>
        /\ ResultIsInput
        /\ \A i, j \in DOMAIN airspacesWithLanes :
               (i # j /\ airspacesWithLanes[i].lane = airspacesWithLanes[j].lane)
                   => ~OverlapByBounds(airspacesWithLanes[i], airspacesWithLanes[j])

\* C1 witness: assignLanes ran on an unsorted list of three regions, two of
\* which share a lane while another pair overlaps.
C1_Witness ==
    /\ laneCall = "assignLanes"
    /\ Len(airspaces) = 3
    /\ airspaces[1].lowerFt > airspaces[2].lowerFt
    /\ \E i, j \in DOMAIN airspacesWithLanes :
           i # j /\ airspacesWithLanes[i].lane = airspacesWithLanes[j].lane
    /\ \E i, j \in DOMAIN airspacesWithLanes :
           i # j /\ OverlapByBounds(airspacesWithLanes[i], airspacesWithLanes[j])

\* The sets of input positions whose regions overlap pairwise.
Cliques ==
    {S \in SUBSET (DOMAIN airspaces) :
        \A i, j \in S : i # j => OverlapByBounds(airspaces[i], airspaces[j])}

\* Whether the input regions can be laid out in k lanes with overlapping
\* regions in different lanes.
LayoutWith(k) ==
    \E f \in [DOMAIN airspaces -> 0 .. k - 1] :
        \A i, j \in DOMAIN airspaces :
            (i # j /\ OverlapByBounds(airspaces[i], airspaces[j])) => f[i] # f[j]

LaneOfIndex(ix) ==
    LET j == CHOOSE j \in DOMAIN airspacesWithLanes : airspacesWithLanes[j].index = ix
    IN  airspacesWithLanes[j].lane

\* C2: for regions with lowerFt <= upperFt, sorted by lower bound as the
\* panel does, totalLanes is minimal: it equals the largest number of
\* pairwise-overlapping regions and no valid layout uses fewer lanes; the
\* regions A=[0,5000], B=[3000,8000], C=[9000,12000] get lanes 0, 1, 0 and a
\* lane count of 2.
C2_LaneCountMinimal ==
    (laneCall = "panel" /\ \A i \in DOMAIN airspaces : airspaces[i].lowerFt <= airspaces[i].upperFt)
        => /\ \E S \in Cliques : Cardinality(S) = totalLanes
           /\ \A S \in Cliques : Cardinality(S) <= totalLanes
           /\ ~LayoutWith(totalLanes - 1)
           /\ airspaces = WithIndex(ExampleABC)
                  => /\ totalLanes = 2
                     /\ LaneOfIndex(0) = 0 /\ LaneOfIndex(1) = 1 /\ LaneOfIndex(2) = 0

\* C2 witness: the panel laid out three regions with lowerFt <= upperFt,
\* given out of order and one of them of zero height, in two lanes.
C2_Witness ==
    /\ laneCall = "panel"
    /\ Len(airspaces) = 3
    /\ \A i \in DOMAIN airspaces : airspaces[i].lowerFt <= airspaces[i].upperFt
    /\ \E i \in DOMAIN airspaces : airspaces[i].lowerFt = airspaces[i].upperFt
    /\ airspaces[1].index # 0
    /\ totalLanes = 2

\* The horizontal extents [left, left + width) of two boxes intersect;
\* a box of no width covers nothing.
ExtentsIntersect(p, q) ==
    /\ p.widthPercent.num > 0 /\ q.widthPercent.num > 0
    /\ p.leftPercent.num * q.widthPercent.den
           < (q.leftPercent.num + q.widthPercent.num) * p.widthPercent.den
    /\ q.leftPercent.num * p.widthPercent.den
           < (p.leftPercent.num + p.widthPercent.num) * q.widthPercent.den

\* C11 as claimed: the boxes of any two distinct regions that overlap in
\* altitude have horizontal extents that do not intersect.
C11_Claimed ==
    laneCall = "panel" =>
        \A i, j \in DOMAIN chart.boxes :
            (i # j /\ OverlapByBounds(chart.boxes[i], chart.boxes[j]))
                => ~ExtentsIntersect(chart.boxes[i], chart.boxes[j])

\* One region's upper bound is the other's lower bound.
Touching(a, b) == a.upperFt = b.lowerFt \/ b.upperFt = a.lowerFt

\* C12: two regions whose bounds touch do not overlap for
\* doAirspacesOverlap, in either order of the arguments; the test gives the
\* same answer for (a, b) and (b, a) on every pair of regions; and a
\* touching pair that no third region overlaps is put in one lane, lane 0.
C12_TouchingShareLane ==
    laneCall # "none" =>
        \A i, j \in DOMAIN airspacesWithLanes :
            LET a == airspacesWithLanes[i]
                b == airspacesWithLanes[j]
            IN  /\ doAirspacesOverlap(a, b) = doAirspacesOverlap(b, a)
                /\ Touching(a, b) => ~doAirspacesOverlap(a, b)
                /\ (/\ i # j /\ Touching(a, b)
                    /\ \A k \in DOMAIN airspacesWithLanes \ {i, j} :
                           LET c == airspacesWithLanes[k]
                           IN  ~OverlapByBounds(a, c) /\ ~OverlapByBounds(b, c))
                       => a.lane = 0 /\ b.lane = 0

\* C12 witness: the panel laid out [0,5000] and [5000,10000] in one lane.
C12_Witness ==
    /\ laneCall = "panel"
    /\ airspaces = WithIndex(ExampleTouching)
    /\ totalLanes = 1
    /\ airspacesWithLanes[1].lane = 0 /\ airspacesWithLanes[2].lane = 0

\* The regions of a render are in ascending order of lower bound, and
\* regions of equal lower bound in the order of the input.
InStableOrder(list) ==
    \A p, q \in DOMAIN list :
        p < q => \/ list[p].lowerFt < list[q].lowerFt
                 \/ (list[p].lowerFt = list[q].lowerFt /\ list[p].index < list[q].index)

\* The regions placed before position j that were given lane k and overlap
\* the region at position j.
EarlierInLane(j, k) ==
    {i \in 1 .. j - 1 :
        /\ airspacesWithLanes[i].lane = k
        /\ OverlapByBounds(airspacesWithLanes[i], airspacesWithLanes[j])}

\* C18: the regions are taken in ascending order of lower bound by the
\* panel (in the order given by a direct call); each gets the lowest lane
\* none of whose earlier members overlaps it, so every lower lane holds an
\* earlier region that overlaps it; the lanes used are exactly
\* 0 .. totalLanes - 1.
C18_FirstFit ==
    laneCall # "none" =>
        /\ laneCall = "panel" => InStableOrder(airspacesWithLanes)
        /\ laneCall = "assignLanes" =>
               \A j \in DOMAIN airspacesWithLanes : airspacesWithLanes[j].index = j - 1
        /\ \A j \in DOMAIN airspacesWithLanes :
               /\ EarlierInLane(j, airspacesWithLanes[j].lane) = {}
               /\ \A k \in 0 .. airspacesWithLanes[j].lane - 1 : EarlierInLane(j, k) # {}
        /\ {airspacesWithLanes[j].lane : j \in DOMAIN airspacesWithLanes} = 0 .. totalLanes - 1

\* C18 witness: the panel gave three regions the lanes 0, 1, 0: the third
\* went back to lane 0 although lane 1 was free for it as well.
C18_Witness ==
    /\ laneCall = "panel"
    /\ Len(airspacesWithLanes) = 3
    /\ airspacesWithLanes[1].lane = 0
    /\ airspacesWithLanes[2].lane = 1
    /\ airspacesWithLanes[3].lane = 0
    /\ ~OverlapByBounds(airspacesWithLanes[3], airspacesWithLanes[2])
    /\ totalLanes = 2

\* The lanes of the boxes that overlap box b in altitude (b itself is among
\* them when its upper bound is above its lower bound).
LanesOverlapping(b) ==
    {chart.boxes[k].lane : k \in {j \in DOMAIN chart.boxes : OverlapByBounds(b, chart.boxes[j])}}

\* The width of box b is 100% / n.
WidthIsHundredOver(b, n) == b.widthPercent.num * n = 100 * b.widthPercent.den

\* C19 as claimed: the width of every box is 100% divided by the number of
\* distinct lanes used by the regions that overlap it, itself included;
\* stated for the boxes of positive height, which overlap themselves.
C19_Claimed ==
    laneCall = "panel" =>
        \A j \in DOMAIN chart.boxes :
            LET b == chart.boxes[j]
            IN  b.lowerFt < b.upperFt
                    => WidthIsHundredOver(b, Cardinality(LanesOverlapping(b)))

\* What a limit of a feature means in feet, for the limits enumerated.
MeantFeet(field, unit) ==
    LET l == CHOOSE x \in ChartLimits : <<x.value>> = field /\ x.unit = unit
    IN  l.feet

\* The feature was built from the enumerated limits.
FromChartLimits(f) ==
    /\ \E x \in ChartLimits : <<x.value>> = f.lower_limit_value /\ x.unit = f.lower_limit_unit
    /\ \E x \in ChartLimits : <<x.value>> = f.upper_limit_value /\ x.unit = f.upper_limit_unit

\* C20: the bounds laid out are the limits in feet (a Flight Level times
\* 100, any other unit unchanged); the chart's scale is the largest of
\* 10000 ft and the upper bounds; and for every region with
\* 0 <= lowerFt <= upperFt, 0 <= top <= bottom <= 100%.
C20_FeetAndScale ==
    laneCall = "panel" =>
        /\ \A j \in DOMAIN chart.boxes :
               LET b == chart.boxes[j]
                   f == features[b.index + 1]
               IN  /\ FromChartLimits(f) =>
                          /\ b.lowerFt = MeantFeet(f.lower_limit_value, f.lower_limit_unit)
                          /\ b.upperFt = MeantFeet(f.upper_limit_value, f.upper_limit_unit)
                   /\ b.upperFt <= chart.maxAltitude
                   /\ (0 <= b.lowerFt /\ b.lowerFt <= b.upperFt) =>
                          /\ b.topPercent.den = chart.maxAltitude
                          /\ b.bottomPercent.den = chart.maxAltitude
                          /\ b.topPercent.num = (chart.maxAltitude - b.upperFt) * 100
                          /\ b.bottomPercent.num = (chart.maxAltitude - b.lowerFt) * 100
                          /\ 0 <= b.topPercent.num
                          /\ b.topPercent.num <= b.bottomPercent.num
                          /\ b.bottomPercent.num <= 100 * b.bottomPercent.den
        /\ chart.maxAltitude >= 10000
        /\ \/ chart.maxAltitude = 10000
           \/ \E j \in DOMAIN chart.boxes : chart.boxes[j].upperFt = chart.maxAltitude

\* C20 witness: a region from 3000 ft to FL 120 and one from 0 ft to FL 50
\* were drawn on a scale of 12000 ft, the first above the second.
C20_Witness ==
    /\ laneCall = "panel"
    /\ chart.maxAltitude = 12000
    /\ \E i, j \in DOMAIN chart.boxes :
           /\ chart.boxes[i].lowerFt = 3000 /\ chart.boxes[i].upperFt = 12000
           /\ features[chart.boxes[i].index + 1].upper_limit_unit = "FL"
           /\ chart.boxes[j].lowerFt = 0 /\ chart.boxes[j].upperFt = 5000
           /\ chart.boxes[i].topPercent.num = 0
           /\ chart.boxes[j].bottomPercent.num = 100 * chart.boxes[j].bottomPercent.den

(***************************************************************************)
(* Claims about the METAR decoding                                         *)
(***************************************************************************)
\* The cloud groups of the main report of the METAR at hand.
GroupsOfMetar == {x.groups : x \in {y \in CloudInputs : y.text = metar}}

\* The coverage percent the claim gives a code.
ClaimedPercent(code) ==
    CASE code = "FEW" -> 25 [] code = "SCT" -> 50 [] code = "BKN" -> 75
      [] code = "OVC" -> 100 [] OTHER -> 0

\* A group that bears an altitude and whose code is no clear variant.
BearsAltitude(g) == g.hundreds >= 0 /\ g.code \notin {"NSC", "SKC", "CLR", "CAVOK"}

\* The layers are the altitude-bearing groups gs, each as often as it is
\* in gs, with its altitude in feet and its percent.
LayersAreGroups(layers, gs) ==
    /\ Len(layers) = Cardinality({i \in DOMAIN gs : BearsAltitude(gs[i])})
    /\ \A g \in {gs[i] : i \in {j \in DOMAIN gs : BearsAltitude(gs[j])}} :
           Cardinality({i \in DOMAIN gs : gs[i] = g})
               = Cardinality({i \in DOMAIN layers :
                                 /\ layers[i].coverage = g.code
                                 /\ layers[i].altitude = g.hundreds * 100
                                 /\ layers[i].coveragePercent = ClaimedPercent(g.code)})

\* C14: parseCloudLayers returns the altitude-bearing layers of the main
\* report, altitude = group x 100 ft, percent FEW 25, SCT 50, BKN 75,
\* OVC 100, in ascending order of altitude; clear variants and codes
\* without an altitude give no layer; SCT025 BKN040 OVC100 gives
\* 2500/4000/10000 ft with 50/75/100 and CAVOK gives no layer.
C14_CloudLayers ==
    cloudLayers.done =>
        /\ \A gs \in GroupsOfMetar : LayersAreGroups(cloudLayers.layers, gs)
        /\ \A i, j \in DOMAIN cloudLayers.layers :
               i < j => cloudLayers.layers[i].altitude <= cloudLayers.layers[j].altitude

\* C14 witness: BKN040 SCT025 OVC100 followed by remarks with a cloud
\* group gave 2500/4000/10000 ft with 50/75/100.
C14_Witness ==
    /\ cloudLayers.done
    /\ metar = CloudReport(ExampleThreeShuffled, Chars(" RMK OVC002"))
    /\ Len(cloudLayers.layers) = 3
    /\ cloudLayers.layers[1].altitude = 2500 /\ cloudLayers.layers[1].coveragePercent = 50
    /\ cloudLayers.layers[2].altitude = 4000 /\ cloudLayers.layers[2].coveragePercent = 75
    /\ cloudLayers.layers[3].altitude = 10000 /\ cloudLayers.layers[3].coveragePercent = 100

\* The wind groups of the METAR at hand.
WindTokensOfMetar == {x.token : x \in {y \in WindInputs : y.text = metar}}

\* C15: for a report with a wind group DDDSSKT or DDDSSSKT, with or
\* without a G group, parseWind returns the direction, speed and gust of
\* the group, no gust when there is no G group and a null direction for
\* VRB; for a report without a wind group it returns null.
C15_WindRecovered ==
    windData.done =>
        /\ \A w \in WindTokensOfMetar :
               /\ windData.found
               /\ windData.variable = (w.direction < 0)
               /\ w.direction >= 0 => windData.direction = w.direction
               /\ windData.speed = w.speed
               /\ windData.hasGust = (w.gust >= 0)
               /\ w.gust >= 0 => windData.gust = w.gust
        /\ metar \in NoWindTexts => ~windData.found

\* C15 witness: VRB at 100 knots gusting 105, in a report of station KVRB.
C15_Witness ==
    /\ windData.done /\ windData.found
    /\ windData.variable /\ windData.speed = 100
    /\ windData.hasGust /\ windData.gust = 105
    /\ MatchesAt(metar, 1, Chars("METAR KVRB"))

\* The angle from the runway heading to the wind, in 0 .. 359 degrees.
WindAngle == (windCalc.windDir - windCalc.runwayHeading) % 360

\* n is a nearest integer of the product p: no integer is nearer to it.
NearestTo(n, p) ==
    LET m == IF p.neg THEN 0 - n ELSE n
    IN  \/ m = p.whole /\ 2 * p.frac <= 10 ^ 9
        \/ m = p.whole + 1 /\ 2 * p.frac >= 10 ^ 9

\* C16: calculateWindComponents returns a crosswind that is never negative
\* and a headwind of the sign of the projection (negative for a tailwind),
\* each a nearest integer of its projection; wind along the runway heading
\* gives (speed, 0), wind from behind (-speed, 0) and wind at 90 degrees on
\* either side (0, speed).
C16_WindComponents ==
    windCalc.done =>
        LET speed == windCalc.windSpeed
            along == Times(speed, CosOf(WindAngle))
            cross == AbsOf(Times(speed, SinOf(WindAngle)))
        IN  /\ windCalc.crosswind >= 0
            /\ windCalc.headwind > 0 => WindAngle < 90 \/ WindAngle > 270
            /\ windCalc.headwind < 0 => WindAngle > 90 /\ WindAngle < 270
            /\ NearestTo(windCalc.headwind, along)
            /\ NearestTo(windCalc.crosswind, cross)
            /\ WindAngle = 0 => windCalc.headwind = speed /\ windCalc.crosswind = 0
            /\ WindAngle = 180 => windCalc.headwind = 0 - speed /\ windCalc.crosswind = 0
            /\ WindAngle \in {90, 270} => windCalc.headwind = 0 /\ windCalc.crosswind = speed

\* C16 witness: wind from 200 at 456 knots on runway 36, a tailwind of 428
\* knots (428.4998 before the rounding) with 156 knots from the left.
C16_Witness ==
    /\ windCalc.done
    /\ windCalc.windDir = 200 /\ windCalc.windSpeed = 456 /\ windCalc.runwayHeading = 360
    /\ windCalc.headwind = -428 /\ windCalc.crosswind = 156

\* The sections of the decoded text, in the order the claim gives them.
SectionOrder ==
    <<"wind", "visibility", "weather", "clouds", "temperature", "altimeter", "tempo", "remarks">>

RankOf(section) == CHOOSE k \in DOMAIN SectionOrder : SectionOrder[k] = section

\* The descriptors of the METAR at hand.
DescriptorsOfMetar == {x.descriptor : x \in {y \in DecodeInputs : y.text = metar}}

\* Whether a group of the report follows the visibility in the main report.
FollowedInMainReport(d) ==
    \/ d.weather # 0 \/ d.clouds # 0 \/ d.temperature # 0 \/ d.altimeter # 0
    \/ Trailers[d.trailer].open

\* The sections whose pattern matches the report of a descriptor: a lone
\* 240V300 is no wind group, four digits of visibility stand between white
\* spaces, and remarks count when they are shorter than the limit.
MatchedSections(d) ==
    {s \in Range(SectionOrder) :
        \/ s = "wind" /\ d.wind # 0 /\ WindGroups[d.wind] # "240V300"
        \/ s = "visibility" /\ d.visibility # 0
               /\ (VisibilityGroups[d.visibility] \in {"9999", "0800"} => FollowedInMainReport(d))
        \/ s = "weather" /\ d.weather # 0
        \/ s = "clouds" /\ d.clouds # 0
        \/ s = "temperature" /\ d.temperature # 0
        \/ s = "altimeter" /\ d.altimeter # 0
        \/ s = "tempo" /\ Trailers[d.trailer].tempo
        \/ s = "remarks" /\ Trailers[d.trailer].rmk /\ Trailers[d.trailer].length < 50}

\* C17: decodeMetar emits its sections in the order wind, visibility,
\* present weather, clouds, temperature/dewpoint, altimeter, temporary
\* conditions, remarks, each at most once; a section whose pattern does not
\* match contributes no clause, the remarks clause is there only for
\* remarks shorter than 50 characters, and the text is 'Unable to decode
\* METAR' exactly when no section matched.
C17_SectionsInOrder ==
    decoded.done =>
        /\ \A i, j \in DOMAIN decoded.parts :
               i < j => RankOf(decoded.parts[i].section) < RankOf(decoded.parts[j].section)
        /\ \A d \in DescriptorsOfMetar :
               /\ {decoded.parts[i].section : i \in DOMAIN decoded.parts} = MatchedSections(d)
               /\ (\E i \in DOMAIN decoded.parts : decoded.parts[i].section = "remarks")
                      => Trailers[d.trailer].length < 50
               /\ (decoded.text = UnableToDecode) <=> (MatchedSections(d) = {})
        /\ \A i \in DOMAIN decoded.parts : decoded.parts[i].text # <<>>
        /\ decoded.text # UnableToDecode =>
               decoded.text = JoinTexts([i \in DOMAIN decoded.parts |-> decoded.parts[i].text],
                                        Chars(". ")) \o <<".">>

\* C17 witness: a report with a group of every section, a TEMPO and short
\* remarks gave the eight clauses in order.
C17_Witness ==
    /\ decoded.done
    /\ metar = Chars("EGLL 121350Z 09010KT 9999 -SHRA SCT025 15/10 Q1013")
                   \o Chars(" TEMPO 1213/1215 4000 RA RMK AO2")
    /\ decoded.text =
           Chars("Wind from 090° at 10 knots. Visibility 10 km or more. Light Showers rain. ")
               \o Chars("Scattered clouds at 2500 feet. Temperature 15°C, Dewpoint 10°C. ")
               \o Chars("QNH 1013 hPa. Temporary conditions: 4000 RA. Remarks: AO2.")

(***************************************************************************)
(* Claims about the NOTAM status and the D) schedule                       *)
(***************************************************************************)
\* What the enumerated date texts mean, as instants in minutes since the
\* epoch: 2025-01-01T00:00Z, 2025-01-08T12:00Z, 2025-01-20T00:00Z.
DatedTexts ==
    {[text |-> DateBefore,  instant |-> WeekStart - 4 * 1440],
     [text |-> DateMidWeek, instant |-> WeekStart + 3 * 1440 + 12 * 60],
     [text |-> DateAfter,   instant |-> WeekStart + 15 * 1440]}

\* The text is a date later than the clock.
LaterThanNow(text) == \E d \in DatedTexts : d.text = text /\ d.instant > now

\* The text does not consist of exactly two parts separated by one space.
NotTwoParts(text) == Cardinality({i \in DOMAIN text : text[i] = " "}) # 1

\* The clock's weekday (Sunday = 0) and time of day HHMM; the week sampled
\* begins on a Sunday at 00:00Z.
ClockDay == ((now - WeekStart) \div 1440) % 7
ClockHHMM == (((now - WeekStart) % 1440) \div 60) * 100 + ((now - WeekStart) % 60)

\* The days from a to b, going round the week when a > b.
DaysFromTo(a, b) == {(a + k) % 7 : k \in 0 .. ((b - a) % 7)}

\* The time range s-e holds the clock's time; it spans midnight when s > e.
ClockInTimes(s, e) ==
    IF s <= e THEN s <= ClockHHMM /\ ClockHHMM <= e
    ELSE ClockHHMM >= s \/ ClockHHMM <= e

\* The clock is within schedule d, as the claims read a schedule.
ClockWithin(d) ==
    /\ d.kind = "range" => ClockDay \in DaysFromTo(d.a, d.b)
    /\ d.kind = "single" => ClockDay = d.a
    /\ (d.kind # "other" /\ d.hasTime) => ClockInTimes(d.s, d.e)

\* The schedules whose message is the one at hand.
SchedulesOfMessage ==
    {q.desc : q \in {x \in ScheduleInputs : x.text = notam.icaoMessage}}

\* C3: getNotamStatus returns 'upcoming' whenever the start date is later
\* than the current time, whatever the end date and the D) schedule are,
\* and only then.
C3_UpcomingIffStartInFuture ==
    notamStatus # NotRendered =>
        (notamStatus.status = "upcoming" <=> LaterThanNow(notam.startDate))

\* C3 witness: a NOTAM that starts after the clock, whose end date is
\* already past and which has a D) schedule, was rendered 'upcoming'.
C3_Witness ==
    /\ notamStatus.status = "upcoming"
    /\ notam.startDate = DateAfter
    /\ notam.endDate = DateBefore
    /\ notam.icaoMessage # MessageNoD

\* C4 as claimed: with a start that is not in the future the status is
\* 'active' if the end date is PERM or later than the current time, and
\* 'expired' otherwise; one of the three statuses is always returned.
C4_Claimed ==
    notamStatus # NotRendered =>
        /\ notamStatus.status \in {"upcoming", "active", "expired"}
        /\ ~LaterThanNow(notam.startDate) =>
               IF notam.endDate = PermText \/ LaterThanNow(notam.endDate)
               THEN notamStatus.status = "active"
               ELSE notamStatus.status = "expired"

\* C4, amended: with a start that is not in the future the status is
\* 'active' if the end date is unset (PERM, or any text that is not two
\* parts separated by one space, such as the empty string) or later than
\* the current time, and 'expired' otherwise; one of the three statuses is
\* always returned.
C4_ActiveUnlessEnded ==
    notamStatus # NotRendered =>
        /\ notamStatus.status \in {"upcoming", "active", "expired"}
        /\ ~LaterThanNow(notam.startDate) =>
               IF notam.endDate = PermText \/ NotTwoParts(notam.endDate)
                    \/ LaterThanNow(notam.endDate)
               THEN notamStatus.status = "active"
               ELSE notamStatus.status = "expired"

\* C4 witness: a started NOTAM whose end is the very minute of the clock was
\* rendered 'expired' after having been 'active' a sample earlier.
C4_Witness ==
    /\ notamStatus.status = "expired"
    /\ notam.startDate = DateBefore
    /\ notam.endDate = DateMidWeek
    /\ now = WeekStart + 3 * 1440 + 12 * 60

\* C5 as claimed: a NOTAM that has started and whose end is unset or in the
\* future is 'active', never 'expired'; its label is 'Active (Outside
\* Schedule)' when it has a D) schedule and the clock is outside it, and
\* the plain 'Active' exactly when it has none or the clock is within it.
C5_Claimed ==
    (/\ notamStatus # NotRendered
     /\ ~LaterThanNow(notam.startDate)
     /\ (notam.endDate = PermText \/ LaterThanNow(notam.endDate)))
        => /\ notamStatus.status = "active"
           /\ notamStatus.label \in {"Active", "Active (Outside Schedule)"}
           /\ notamStatus.label = "Active"
                  <=> (notam.icaoMessage = MessageNoD
                       \/ \E d \in SchedulesOfMessage : ClockWithin(d))

\* C6 as claimed: isWithinSchedule is true for a message with no D) field
\* and for a D) content that is no DAILY, weekday-range or single-weekday
\* schedule.
C6_Claimed ==
    (/\ scheduleCheck.done
     /\ (notam.icaoMessage = MessageNoD \/ \E d \in SchedulesOfMessage : d.kind = "other"))
        => scheduleCheck.value

\* C7: for a weekday range A-B with an optional time range S-E,
\* isWithinSchedule is true exactly when the clock's day is in the day range
\* (going round the week when A > B) and its time is in the time range
\* (spanning midnight when S > E); without a time range only the day counts.
C7_DayRangeSchedule ==
    scheduleCheck.done =>
        \A d \in SchedulesOfMessage :
            d.kind = "range" =>
                (scheduleCheck.value <=>
                    (/\ ClockDay \in DaysFromTo(d.a, d.b)
                     /\ d.hasTime => ClockInTimes(d.s, d.e)))

\* C7 witness: SAT-MON 2300-0200, fields on separate lines, checked on
\* Sunday at 23:00 and found within the schedule.
C7_Witness ==
    /\ scheduleCheck.done /\ scheduleCheck.value
    /\ \E d \in SchedulesOfMessage :
           d.kind = "range" /\ d.a = 6 /\ d.b = 1 /\ d.hasTime /\ d.s = 2300 /\ d.e = 200
    /\ \E i \in DOMAIN notam.icaoMessage : notam.icaoMessage[i] = "\n"
    /\ now = WeekStart + 23 * 60

\* C8 as claimed: for a DAILY schedule isWithinSchedule is true on every
\* day; with a time range S-E exactly when the clock's time is inside it, a
\* range with S > E spanning midnight; with no time range always.
C8_Claimed ==
    scheduleCheck.done =>
        \A d \in SchedulesOfMessage :
            d.kind = "daily" =>
                (scheduleCheck.value <=> (d.hasTime => ClockInTimes(d.s, d.e)))

(***************************************************************************)
(* Claims about the NOTAM coordinates                                      *)
(***************************************************************************)
\* The phrases of the text at hand.
SegmentsOfText == {p.segs : p \in {x \in CoordInputs : x.text = icaoText}}

\* C9 as claimed: every non-null result of parseNotamCoordinates has
\* |latitude| <= 90 and |longitude| <= 180 degrees; a token such as 905959N
\* or 1805959E is rejected.
C9_Claimed ==
    (coords.done /\ coords.result.found)
        => /\ Abs(coords.result.latitude) <= 90 * 3600
           /\ Abs(coords.result.longitude) <= 180 * 3600

\* The candidate of pattern pat in the phrases segs: the first phrase meant
\* for that pattern (1 WI..RADIUS OF, 2 PSN/POSITION, 3 BY:), and for
\* pattern 4 the first pair of the text; 0 when there is none.
CandidateOf(segs, pat) ==
    LET mine == IF pat = 4 THEN DOMAIN segs
                ELSE {i \in DOMAIN segs : Phrases[segs[i].phrase].pattern = pat}
    IN  IF mine = {} THEN 0 ELSE CHOOSE i \in mine : \A m \in mine : i <= m

ValidSegment(g) == LatTokens[g.lat].valid /\ LonTokens[g.lon].valid

\* The first valid candidate in the order of the patterns, with a radius
\* only from pattern 1; null when no pattern has a valid candidate.
FirstValidCandidate(segs) ==
    LET good == {pat \in 1 .. 4 :
                    CandidateOf(segs, pat) # 0 /\ ValidSegment(segs[CandidateOf(segs, pat)])}
    IN  IF good = {} THEN NoCoordinates
        ELSE LET pat == CHOOSE q \in good : \A m \in good : q <= m
                 g   == segs[CandidateOf(segs, pat)]
             IN  [found |-> TRUE,
                  latitude |-> LatTokens[g.lat].arcsec,
                  longitude |-> LonTokens[g.lon].arcsec,
                  hasRadius |-> pat = 1,
                  radius |-> IF pat = 1 THEN PhraseRadiusMilli ELSE 0]

\* C10 as claimed: parseNotamCoordinates returns the first valid candidate
\* in the order WI..RADIUS OF, PSN/POSITION, BY:, first bare pair, wherever
\* the candidates stand in the text, with a radius only from the first
\* pattern, and null only if no pattern has a valid candidate.
C10_Claimed ==
    coords.done => \A segs \in SegmentsOfText : coords.result = FirstValidCandidate(segs)

(***************************************************************************)
(* Claims about the airport panel, the panels of the App and the settings  *)
(***************************************************************************)
\* The wind groups of the report of the runway row at hand.
TokensOfRow == {x.token : x \in {y \in RunwayWindInputs : y.text = runwayView.rawOb}}

\* The number of the end of a runway in tens of degrees, from its first
\* two characters; -1 when they are no digits.
EndHeading(ident) ==
    IF Len(ident) >= 2 /\ IsDigit(ident[1]) /\ IsDigit(ident[2])
    THEN 10 * (10 * DigitVal(ident[1]) + DigitVal(ident[2])) ELSE -1

\* The runway has two numbered ends.
TwoEnded == EndHeading(runwayView.le_ident) >= 0 /\ EndHeading(runwayView.he_ident) >= 0

\* c is the headwind and crosswind of a wind on a heading, each a nearest
\* integer of its projection.
ProjectionOf(c, direction, speed, heading) ==
    /\ ~c.nan
    /\ NearestTo(c.headwind, Times(speed, CosOf(direction - heading)))
    /\ NearestTo(c.crosswind, AbsOf(Times(speed, SinOf(direction - heading))))

\* C21: for a runway with two ends and a wind with a direction, the favored
\* end is the end with the larger headwind, the low end when both are
\* equal; the headwind and crosswind shown are those of the favored end and
\* the gust components are those on the favored end's heading; with a
\* variable wind or none no end is favored and no components are there.
C21_FavoredEnd ==
    runwayView.done /\ TwoEnded =>
        LET leHeading == EndHeading(runwayView.le_ident)
            heHeading == EndHeading(runwayView.he_ident)
            favored   == IF runwayView.favoredEnd = "le" THEN leHeading ELSE heHeading
        IN  /\ \A w \in TokensOfRow :
                   IF w.direction >= 0 /\ runwayView.hasMetar
                   THEN /\ ProjectionOf(runwayView.le, w.direction, w.speed, leHeading)
                        /\ ProjectionOf(runwayView.he, w.direction, w.speed, heHeading)
                        /\ runwayView.favoredEnd \in {"le", "he"}
                        /\ runwayView.favoredEnd = "le"
                               <=> runwayView.le.headwind >= runwayView.he.headwind
                        /\ runwayView.shown
                        /\ runwayView.windComponents
                               = IF runwayView.favoredEnd = "le" THEN runwayView.le
                                 ELSE runwayView.he
                        /\ runwayView.hasGust =>
                               /\ w.gust > 0
                               /\ ProjectionOf(runwayView.gust, w.direction, w.gust, favored)
                        /\ w.gust > 0 => runwayView.hasGust
                   ELSE /\ runwayView.favoredEnd = "null"
                        /\ ~runwayView.shown /\ ~runwayView.hasGust
            /\ TokensOfRow = {} =>
                   /\ runwayView.favoredEnd = "null"
                   /\ ~runwayView.shown /\ ~runwayView.hasGust

\* C21 witness: wind 000 at 456 knots gusting 857 on runway 02/20; the end
\* 02 is favored, with 428 knots of headwind and 156 across, and 805 and 293
\* in the gust.
C21_Witness ==
    /\ runwayView.done
    /\ runwayView.le_ident = Chars("02") /\ runwayView.he_ident = Chars("20")
    /\ runwayView.rawOb = Chars("EGLL 121350Z 000456G857KT") \o WindSuffix
    /\ runwayView.favoredEnd = "le"
    /\ runwayView.he.headwind = -428
    /\ runwayView.windComponents.headwind = 428 /\ runwayView.windComponents.crosswind = 156
    /\ runwayView.hasGust
    /\ runwayView.gust.headwind = 805 /\ runwayView.gust.crosswind = 293

\* The weekday schedules whose message is the one at hand.
DaySchedulesOfMessage == {q.desc : q \in {x \in DayInputs : x.text = notam.icaoMessage}}

\* C22 as claimed: for a D) schedule that names weekdays, without DAILY and
\* without a weekday range, isWithinSchedule is true exactly when the UTC
\* day is one of the days named and, if there is a time range, the UTC
\* time is inside it, over midnight when start > end.
C22_Claimed ==
    scheduleCheck.done =>
        \A d \in DaySchedulesOfMessage :
            scheduleCheck.value <=>
                /\ ClockDay \in Range(d.days)
                /\ d.hasTime => ClockInTimes(d.s, d.e)

\* The rank of a status in the order upcoming, active, expired.
StatusRank(st) == CASE st = "upcoming" -> 1 [] st = "active" -> 2 [] st = "expired" -> 3
                    [] OTHER -> 0

\* C23: for a NOTAM with fixed, well-formed start and end dates the status
\* of getNotamStatus only moves forward in the order upcoming, active,
\* expired as the time advances, whatever the D) schedule says: no render
\* gives a status that comes before the one of the render before.
C23_StatusForward ==
    [][StatusRank(notamStatus.status) <= StatusRank(notamStatus'.status)]_vars

\* C23 witness: a NOTAM from Monday 08:00 to Thursday 23:00 with the
\* schedule MON-FRI 0800-1700 is rendered expired on Saturday, after
\* renders inside and outside its schedule.
C23_Witness ==
    /\ notamStatus.status = "expired"
    /\ notam.startDate = DateMonday /\ notam.endDate = DateThursday
    /\ hasSchedule(notam.icaoMessage)
    /\ ClockDay = 6

(***************************************************************************)
(* Claims about the weather and NOTAM panels of App                        *)
(***************************************************************************)
WeatherOpened ==
    /\ ~panels.flushSync
    /\ \E data \in PanelAirports :
          panels' = AfterClick(handleWeatherOpen(panels, data), TRUE)

NotamOpened ==
    /\ ~panels.flushSync
    /\ \E data \in PanelAirports :
          \/ panels' = handleNotamOpen(panels, data)
          \/ panels' = AfterClick(handleNotamOpen(panels, data), TRUE)

FeaturesClicked ==
    /\ ~panels.flushSync
    /\ \E clicked \in FeatureLists : panels' = handleFeaturesClick(panels, clicked)

\* C24: across every handler call the weather panel data and the NOTAM panel
\* data are not both set; a call of handleWeatherOpen leaves the weather data
\* set and the NOTAM data null, a call of handleNotamOpen the reverse, and a
\* call of handleFeaturesClick leaves both null.
C24_Claimed ==
    [][/\ ~(panels.weatherData # "null" /\ panels.notamData # "null")
       /\ ~(panels'.weatherData # "null" /\ panels'.notamData # "null")
       /\ WeatherOpened => (panels'.weatherData # "null" /\ panels'.notamData = "null")
       /\ NotamOpened => (panels'.notamData # "null" /\ panels'.weatherData = "null")
       /\ FeaturesClicked => (panels'.weatherData = "null" /\ panels'.notamData = "null")]_vars

(***************************************************************************)
(* Claims about the NOTAM panel's fetch                                    *)
(***************************************************************************)
\* C25: whenever a code is selected and the effect has run for it, loading
\* is false and a NOTAM list is shown, the list is the response for the
\* selected code.
C25_Claimed ==
    (/\ notamPanel.icaoCode # "null"
     /\ notamPanel.deps = notamPanel.icaoCode
     /\ ~notamPanel.loading
     /\ notamPanel.notams # NoList)
        => notamPanel.notams.code = notamPanel.icaoCode

(***************************************************************************)
(* Claims about the search box                                             *)
(***************************************************************************)
\* C26: selectedIndex is -1 or an index of the current results list, and no
\* key press has selected a result that does not exist.
C26_Claimed ==
    /\ \/ searchBox.selectedIndex = -1
       \/ searchBox.selectedIndex \in 0 .. Len(searchBox.results) - 1
    /\ ~searchBox.threw

(***************************************************************************)
(* Claims about the settings hook                                          *)
(***************************************************************************)
NoTwoAlike(list) == \A i, j \in DOMAIN list : list[i] = list[j] => i = j

FavouriteIdsOf(current) == [k \in DOMAIN current.favourites |-> current.favourites[k].id]

\* The settings without one of their fields.
Without(current, field) == [f \in DOMAIN current \ {field} |-> current[f]]

OtherThanFavourites(current) == Without(current, "favourites")

OtherThanHidden(current) == Without(current, "hiddenNotams")

\* C29: from the default settings no two favourites share an id and no
\* number is hidden twice; after addFavourite the id has exactly the entry
\* just added; the favourites operations leave every other field as it was,
\* and so do the hidden-NOTAM operations.
C29_SettingsLists ==
    [][/\ NoTwoAlike(FavouriteIdsOf(settings)) /\ NoTwoAlike(FavouriteIdsOf(settings'))
       /\ NoTwoAlike(settings.hiddenNotams) /\ NoTwoAlike(settings'.hiddenNotams)
       /\ \A favourite \in Favourites :
             settings' = addFavourite(settings, favourite) =>
                /\ \A k \in DOMAIN settings'.favourites :
                      settings'.favourites[k].id = favourite.id
                         => settings'.favourites[k] = favourite
                /\ \E k \in DOMAIN settings'.favourites : settings'.favourites[k] = favourite
       /\ \/ \E favourite \in Favourites : settings' = addFavourite(settings, favourite)
          \/ \E id \in FavouriteIds : settings' = removeFavourite(settings, id)
          \/ settings' = clearAllFavourites(settings)
          => OtherThanFavourites(settings') = OtherThanFavourites(settings)
       /\ \/ \E n \in NotamNumbers : settings' = hideNotam(settings, n)
          \/ \E n \in NotamNumbers : settings' = unhideNotam(settings, n)
          \/ settings' = clearAllHiddenNotams(settings)
          => OtherThanHidden(settings') = OtherThanHidden(settings)]_vars

\* EGLL was saved as "Heathrow" and then again as "London Heathrow", after
\* LFPG; two NOTAMs are hidden, and every other field has its default value.
C29_Witness ==
    /\ Len(settings.favourites) = 2
    /\ settings.favourites[1].id = "LFPG"
    /\ settings.favourites[2] = [type |-> "airport", id |-> "EGLL", name |-> "London Heathrow"]
    /\ settings.hiddenNotams = <<"A0002/25", "A0001/25">>
    /\ Without(Without(settings, "favourites"), "hiddenNotams")
           = Without(Without(DEFAULT_SETTINGS, "favourites"), "hiddenNotams")

(***************************************************************************)
(* Claims about the NOTAM dialog                                           *)
(***************************************************************************)
ShownNotams(d, current) == Range(activeNotams(d.notams, current, d.t))

NonExpired(d) == SelectSeq(d.notams, LAMBDA item : NotExpired(item, d.t))

HiddenNumbers(current) == Range(current.hiddenNotams)

\* C27: a NOTAM is shown exactly when it is not expired and its number is
\* not hidden; shown count plus hidden count is the number of non-expired
\* NOTAMs; hiding a shown NOTAM takes it out of the shown ones and into the
\* hidden count; clearAllHiddenNotams leaves hidden count 0 and every
\* non-expired NOTAM shown.
C27_ShownAndHidden ==
    [][/\ \A k \in DOMAIN notamDialog.notams :
             notamDialog.notams[k] \in ShownNotams(notamDialog, settings)
                <=> /\ NotExpired(notamDialog.notams[k], notamDialog.t)
                    /\ notamDialog.notams[k].notamNumber \notin HiddenNumbers(settings)
       /\ Len(activeNotams(notamDialog.notams, settings, notamDialog.t))
             + hiddenCount(notamDialog.notams, settings, notamDialog.t)
          = Len(NonExpired(notamDialog))
       /\ \A item \in ShownNotams(notamDialog, settings) :
             (settings' = hideNotam(settings, item.notamNumber) /\ notamDialog' = notamDialog)
                => /\ item \notin ShownNotams(notamDialog', settings')
                   /\ hiddenCount(notamDialog'.notams, settings', notamDialog'.t)
                         > hiddenCount(notamDialog.notams, settings, notamDialog.t)
                   /\ Len(activeNotams(notamDialog'.notams, settings', notamDialog'.t))
                         + hiddenCount(notamDialog'.notams, settings', notamDialog'.t)
                      = Len(NonExpired(notamDialog'))
       /\ (settings' = clearAllHiddenNotams(settings) /\ notamDialog' = notamDialog)
             => /\ hiddenCount(notamDialog'.notams, settings', notamDialog'.t) = 0
                /\ activeNotams(notamDialog'.notams, settings', notamDialog'.t)
                      = NonExpired(notamDialog')]_vars

\* Of four NOTAMs one has expired, two share the hidden number and one is
\* shown.
C27_Witness ==
    /\ notamDialog.notams = <<NotamRunway, NotamTaxiway, NotamCrane, NotamRunwayLights>>
    /\ notamDialog.t = LaterInWeek
    /\ settings.hiddenNotams = <<"A0001/25">>
    /\ activeNotams(notamDialog.notams, settings, notamDialog.t) = <<NotamCrane>>
    /\ hiddenCount(notamDialog.notams, settings, notamDialog.t) = 2

ExpandedShown(d, current) ==
    {RenderedNotams(d, current)[k].notam :
        k \in {j \in DOMAIN RenderedNotams(d, current) : RenderedNotams(d, current)[j].expanded}}

PlaceOf(d, item) == CHOOSE k \in DOMAIN d.notams : d.notams[k] = item

\* C28: when a NOTAM is shown with its full message and a shown NOTAM of
\* another number, earlier in the list, is hidden, the NOTAMs shown with
\* their full message afterwards are those shown with it before, less the
\* hidden ones.
C28_Claimed ==
    [][(\E item \in ShownNotams(notamDialog, settings) :
           /\ settings' = hideNotam(settings, item.notamNumber)
           /\ notamDialog' = notamDialog
           /\ \E full \in ExpandedShown(notamDialog, settings) :
                 /\ full.notamNumber # item.notamNumber
                 /\ PlaceOf(notamDialog, item) < PlaceOf(notamDialog, full))
        => ExpandedShown(notamDialog', settings')
              = ExpandedShown(notamDialog, settings) \cap ShownNotams(notamDialog', settings')]_vars

(***************************************************************************)
(* Claims about the active lanes of a box                                  *)
(***************************************************************************)
\* C30: for every box of the chart, regions of no height included, the
\* number of active lanes is a positive integer above the box's own lane
\* index, and the left edge plus the width is at most 100%.
C30_Claimed ==
    laneCall = "panel" =>
        \A j \in DOMAIN chart.boxes :
            LET b == chart.boxes[j]
            IN  /\ b.numActiveLanes.finite
                /\ b.numActiveLanes.v > 0
                /\ b.numActiveLanes.v > b.lane
                /\ b.leftPercent.num + b.widthPercent.num <= 100 * b.widthPercent.den


=============================================================================
